---------------------------- MODULE Spec2Model ----------------------------
(***************************************************************************)
(* Model of the village simulator's step loop: the Weather, Demographics,  *)
(* Wheat and RainfallEffectOnWheat components advancing a population table *)
(* through the prepare / main / cleanup phases of each time step.          *)
(*                                                                         *)
(* Time is counted in quarter days since 1 January 2021, so that    *)
(* ONE_YEAR (365.25 days) is a whole number.  Real-valued columns are      *)
(* exact fractions [n, d]; d = 0 encodes the floating point values         *)
(* +inf (n = 1), -inf (n = -1) and NaN (n = 0).                            *)
(***************************************************************************)
EXTENDS Integers, Sequences, FiniteSets, TLC

(***************************************************************************)
(* Bounds of the exploration.                                              *)
(***************************************************************************)
\* number of time steps taken in one run
MaxSteps == 3
\* largest numerator or denominator a modelled real may have
MaxMagnitude == 1000000000

(***************************************************************************)
(* Exact arithmetic on real-valued cells.                                  *)
(***************************************************************************)
Abs(i) == IF i < 0 THEN -i ELSE i

Sgn(i) == IF i > 0 THEN 1 ELSE IF i < 0 THEN -1 ELSE 0

RECURSIVE GCD(_, _)
GCD(a, b) == IF b = 0 THEN a ELSE GCD(b, a % b)

\* a value outside the modelled range of magnitudes
OutOfRange == [n |-> 0, d |-> -1]
NaN == [n |-> 0, d |-> 0]
PosInf == [n |-> 1, d |-> 0]
NegInf == [n |-> -1, d |-> 0]

InRange(x) == x.d >= 0
IsFinite(x) == x.d > 0
IsNaN(x) == x.d = 0 /\ x.n = 0

\* a * b fits in the modelled range
Fits(a, b) == a = 0 \/ b = 0 \/ Abs(a) <= MaxMagnitude \div Abs(b)

Frac(a, b) ==
    LET g == GCD(Abs(a), Abs(b))
    IN  IF b < 0 THEN [n |-> (-a) \div g, d |-> (-b) \div g]
                 ELSE [n |-> a \div g, d |-> b \div g]

R(i) == [n |-> i, d |-> 1]
Zero == R(0)
One == R(1)

RNeg(x) == IF x.d < 0 THEN x ELSE [n |-> -x.n, d |-> x.d]

RMul(x, y) ==
    IF x.d < 0 \/ y.d < 0 THEN OutOfRange
    ELSE IF IsNaN(x) \/ IsNaN(y) THEN NaN
    ELSE IF x.d = 0 \/ y.d = 0
         THEN [n |-> Sgn(x.n) * Sgn(y.n), d |-> 0]
    ELSE LET g1 == GCD(Abs(x.n), y.d)
             g2 == GCD(Abs(y.n), x.d)
             a == x.n \div g1
             b == y.n \div g2
             c == x.d \div g2
             e == y.d \div g1
         IN  IF Fits(a, b) /\ Fits(c, e)
             THEN [n |-> a * b, d |-> c * e]
             ELSE OutOfRange

RAdd(x, y) ==
    IF x.d < 0 \/ y.d < 0 THEN OutOfRange
    ELSE IF IsNaN(x) \/ IsNaN(y) THEN NaN
    ELSE IF x.d = 0 /\ y.d = 0 THEN (IF x.n = y.n THEN x ELSE NaN)
    ELSE IF x.d = 0 THEN x
    ELSE IF y.d = 0 THEN y
    ELSE LET g == GCD(x.d, y.d)
             xd == x.d \div g
             yd == y.d \div g
         IN  IF Fits(2 * x.n, yd) /\ Fits(2 * y.n, xd) /\ Fits(xd, y.d)
             THEN Frac(x.n * yd + y.n * xd, xd * y.d)
             ELSE OutOfRange

RSub(x, y) == RAdd(x, RNeg(y))

\* floating point division: x / 0 is +-inf, 0 / 0 is NaN
RDiv(x, y) ==
    IF x.d < 0 \/ y.d < 0 THEN OutOfRange
    ELSE IF IsNaN(x) \/ IsNaN(y) THEN NaN
    ELSE IF y.d = 0 THEN (IF x.d = 0 THEN NaN ELSE Zero)
    ELSE IF y.n = 0 THEN [n |-> Sgn(x.n), d |-> 0]
    ELSE RMul(x, [n |-> Sgn(y.n) * y.d, d |-> Abs(y.n)])

RECURSIVE RPow(_, _)
RPow(x, k) == IF k = 0 THEN One ELSE RMul(x, RPow(x, k - 1))

\* a/b < c/d for b, d > 0, by comparing continued fraction expansions
RECURSIVE FracLess(_, _, _, _)
FracLess(a, b, c, d) ==
    LET qa == a \div b
        qc == c \div d
        ra == a % b
        rc == c % d
    IN  IF qa # qc THEN qa < qc
        ELSE IF rc = 0 THEN FALSE
        ELSE IF ra = 0 THEN TRUE
        ELSE FracLess(d, rc, b, ra)

\* x < y as floating point compares: false when either side is NaN
RLess(x, y) ==
    IF IsNaN(x) \/ IsNaN(y) THEN FALSE
    ELSE IF x.d = 0 /\ y.d = 0 THEN x.n < y.n
    ELSE IF x.d = 0 THEN x.n < 0
    ELSE IF y.d = 0 THEN y.n > 0
    ELSE FracLess(x.n, x.d, y.n, y.d)

RLeq(x, y) == x = y \/ RLess(x, y)

RMin(x, y) == IF RLess(y, x) THEN y ELSE x

RFloor(x) == x.n \div x.d

(***************************************************************************)
(* Calendar: pd.Timestamp(year, month, day) in quarter days.               *)
(***************************************************************************)
Day == 4
\* simulation/constants.py: ONE_YEAR = pd.Timedelta(days=365.25)
ONE_YEAR == 1461
\* vivarium's from_yearly divides by a year of 365.0 days
DaysPerYearForRates == 365

IsLeap(y) == (y % 4 = 0) /\ ((y % 100 # 0) \/ (y % 400 = 0))

DaysInMonth(y, m) ==
    IF m = 2 THEN (IF IsLeap(y) THEN 29 ELSE 28)
    ELSE IF m \in {4, 6, 9, 11} THEN 30 ELSE 31

RECURSIVE DaysBeforeMonth(_, _)
DaysBeforeMonth(y, m) ==
    IF m = 1 THEN 0 ELSE DaysBeforeMonth(y, m - 1) + DaysInMonth(y, m - 1)

RECURSIVE DaysBeforeYear(_)
DaysBeforeYear(y) ==
    IF y = 2021 THEN 0
    ELSE DaysBeforeYear(y - 1) + (IF IsLeap(y - 1) THEN 366 ELSE 365)

Timestamp(y, m, d) == Day * (DaysBeforeYear(y) + DaysBeforeMonth(y, m) + (d - 1))

Timedelta(days) == Day * days

(***************************************************************************)
(* Configuration and sampled inputs.  Random draws are keyed by stream,    *)
(* additional key and clock time, so one draw is made per key and step.    *)
(***************************************************************************)
Tiles == {1, 2}

\* time.start of the configuration, as (year, month, day)
StartDates == {<<2021, 5, 13>>, <<2021, 10, 13>>, <<2021, 10, 14>>, <<2021, 2, 12>>}

\* time.step_size of the configuration
StepSizes == {Day, Timedelta(30), ONE_YEAR}

\* farming.py: WHEAT_SOWING_DATE and WHEAT_HARVEST_DATE
WHEAT_SOWING_DATE == [month |-> 10, day |-> 15]
WHEAT_HARVEST_DATE == [month |-> 5, day |-> 15]

\* the terrain map and village.probability of the configuration
VillageConfigurations ==
    {[terrain |-> <<"grassland", "desert">>, probability |-> Frac(1, 2)],
     [terrain |-> <<"grassland", "desert">>, probability |-> One],
     [terrain |-> <<"grassland", "grassland">>, probability |-> One]}

\* effect_of_terrain_on_village.csv, at the modelled terrains
terrain_village_weight(terrain_type) ==
    IF terrain_type = "grassland" THEN One ELSE Zero

\* arable_land after the clip to [0, 1]
ArableLandSamples == {One, Zero}
VillageSizeSamples == {R(1460)}
SexRatioSamples == {One}
\* uniform draws used by round_stochastic
RoundingDraws == {Frac(1, 2)}

\* annual per capita rates
FertilitySamples == {Frac(1, 20)}
MortalitySamples == {Frac(1, 25)}
InitialStoresSamples == {R(2), Frac(1, 365), Frac(1, 730), Frac(213, 1460)}
ConsumptionSamples == {Frac(1, 2)}
\* 1460 people cultivate exactly one unit of land
LandCultivationSamples == {Frac(1, 1460)}
\* about 1.2: the yield of one unit of land, times the effect of one
\* cumulative dry day (9173/4706) and of no late rainfall (-771/904), is -2
LandProductivitySamples == {Frac(8508448, 7072383)}

\* regional rainfall of a wet day, local temperature
RainfallSamples == {R(15)}
\* weather.py: RAINFALL_LOCAL_VARIABILITY
RAINFALL_LOCAL_VARIABILITY == Frac(1, 20)
Temperatures == {60, 100}

\* effect_of_temperature_on_wheat_yields.csv, at the modelled temperatures
effect_of_temperature_on_yield(temp) == IF temp = 60 THEN One ELSE Frac(1, 2)

(***************************************************************************)
(* State.                                                                  *)
(***************************************************************************)
VARIABLES
    clock,                 \* the simulation clock
    step_size,             \* configured step size
    steps_taken,           \* completed steps
    phase,                 \* position in the step: the next phase to emit
    handled,               \* listeners of the current phase already run
    wheat_first,           \* Wheat is registered before Demographics
    mean_village_probability, \* configuration.village.probability
    x, y, terrain,         \* Map's columns
    created_columns,       \* columns written by Village's initialisation
    ppf_call,              \* the last direct call of a distribution function
    aborted,               \* an exception has ended the run
    next_sowing_date,      \* Wheat
    next_harvest_date,     \* Wheat
    rain_next_sowing_date, \* RainfallEffectOnWheat's copy
    rain_next_harvest_date,\* RainfallEffectOnWheat's copy
    is_village,
    arable_land,
    temperature,
    rainfall,
    female_population_size,
    male_population_size,
    wheat_stores,
    projected_wheat_harvest,
    previous_day_dry,
    cumulative_dry_days,
    rainfall_mid_growth,
    rainfall_late_growth,
    consumption_draw,      \* this step's draw of key "wheat.consumption"
    seen                   \* values observed during the current step

config == <<step_size, wheat_first, mean_village_probability, x, y, terrain,
            created_columns, is_village, arable_land>>
dates == <<next_sowing_date, next_harvest_date>>
rain_dates == <<rain_next_sowing_date, rain_next_harvest_date>>
weather == <<temperature, rainfall>>
population == <<female_population_size, male_population_size>>
accumulators == <<cumulative_dry_days, rainfall_mid_growth, rainfall_late_growth>>

vars == <<ppf_call, clock, steps_taken, phase, handled, aborted, config, dates,
          rain_dates, weather, population, wheat_stores,
          projected_wheat_harvest, previous_day_dry, accumulators,
          consumption_draw, seen>>

Villages == {t \in Tiles : is_village[t]}

(***************************************************************************)
(* Pure helpers of simulation/utilities.py and the framework.              *)
(***************************************************************************)
\* the event's date in the year of start, even when it has already passed
get_next_annual_event_date_this_year(start, event_month, event_day) ==
    Timestamp(start[1], event_month, event_day)

\* utilities.get_next_annual_event_date
get_next_annual_event_date(start, event_month, event_day) ==
    LET event_year ==
            IF start[2] < event_month
               \/ (start[2] = event_month /\ start[3] < event_day)
            THEN start[1]
            ELSE start[1] + 1
    IN  Timestamp(event_year, event_month, event_day)

\* rounding up also when the draw equals the fractional part
round_stochastic_inclusive(value, draw) ==
    LET floored == RFloor(value)
        threshold == RSub(value, R(floored))
    IN  floored + (IF RLeq(draw, threshold) THEN 1 ELSE 0)

\* the result of _round_series_stochastic before the cast to int
round_stochastic(value, draw) ==
    LET floored == RFloor(value)
        threshold == RSub(value, R(floored))
    IN  floored + (IF RLess(draw, threshold) THEN 1 ELSE 0)

\* instants of the annual cycle are counted in eighths of a day, so that
\* half of ONE_YEAR (182.625 days) is a whole number of them
EighthsPerTick == 2
HalfYear == ONE_YEAR

\* pd.Timestamp.year of an instant given in eighths of a day
year_of(time) ==
    CHOOSE year \in 2021..2030 :
        /\ EighthsPerTick * Timestamp(year, 1, 1) <= time
        /\ time < EighthsPerTick * Timestamp(year + 1, 1, 1)

\* np.cos(2 * np.pi * distance): exact at the quarter turns, where it is
\* 1, 0, -1 and 0, and a parabola through them in between, so that it is
\* 1 or -1 at whole and half turns only
cos_2pi(distance) ==
    LET turns == RSub(distance, R(RFloor(distance)))
        arc(centre) ==
            LET offset == RSub(turns, centre)
            IN  RSub(One, RMul(R(16), RMul(offset, offset)))
    IN  IF RLeq(turns, Frac(1, 4)) THEN arc(Zero)
        ELSE IF RLeq(turns, Frac(3, 4)) THEN RNeg(arc(Frac(1, 2)))
        ELSE arc(One)

\* utilities.get_value_from_annual_cycle called with min, max and a
\* (month, day) min_date, which is placed in the calendar year of time
get_value_from_annual_cycle(time, min, max, min_date) ==
    LET mean == RMul(RAdd(max, min), Frac(1, 2))
        amplitude == RMul(Frac(1, 2), RSub(max, min))
        date == EighthsPerTick
                    * Timestamp(year_of(time), min_date[1], min_date[2])
        distance_from_minimum == Frac(time - date, EighthsPerTick * ONE_YEAR)
    IN  RSub(mean, RMul(amplitude, cos_2pi(distance_from_minimum)))

\* vivarium.framework.utilities.from_yearly, also the rate post-processor
from_yearly(value, step) == RMul(value, Frac(step, Day * DaysPerYearForRates))

\* DataFrame.min(axis=1): the smallest value of a row, NaN skipped
row_min(a, b, c) ==
    LET pick(u, v) == IF IsNaN(u) THEN v
                      ELSE IF IsNaN(v) THEN u
                      ELSE IF RLess(v, u) THEN v ELSE u
    IN  IF OutOfRange \in {a, b, c} THEN OutOfRange ELSE pick(pick(a, b), c)

\* a step that misses an event falling exactly on its end
crosses_open_end(clock_time, date, step) ==
    clock_time < date /\ date < clock_time + step

\* Wheat: clock_time < date <= clock_time + step_size
crosses(clock_time, date, step) == clock_time < date /\ date <= clock_time + step

\* a reset that misses a harvest falling exactly on the event time
occurred_during_open_end(event_time, date, step) ==
    event_time - step < date /\ date < event_time

\* RainfallEffectOnWheat: event.time - step_size < date <= event.time
occurred_during(event_time, date, step) ==
    event_time - step < date /\ date <= event_time

(***************************************************************************)
(* simulation/distributions.py.  A float is Scalar(x); a pandas Series is  *)
(* Series(<<x1, ..>>); a 2-d numpy array is Array(<<row1, ..>>); a raised   *)
(* exception is a ValueError record returned in place of the value.        *)
(***************************************************************************)
Scalar(v) == [kind |-> "scalar", value |-> v]
Series(s) == [kind |-> "series", values |-> s]
Array(rows) == [kind |-> "array", rows |-> rows]
DataFrame(rows) == [kind |-> "frame", rows |-> rows]
ValueError(msg) == [kind |-> "ValueError", message |-> msg]

\* ndarray.shape
array_shape_of(a) == <<Len(a.rows), Len(a.rows[1])>>

\* np.full(shape, value)
np_full(shape, value) == Array([i \in 1..shape[1] |-> [j \in 1..shape[2] |-> value]])

\* DataFrame.squeeze(): axes of length 1 are dropped
squeeze(rows) ==
    IF Len(rows) = 1 /\ Len(rows[1]) = 1 THEN Scalar(rows[1][1])
    ELSE IF Len(rows[1]) = 1 THEN Series([i \in 1..Len(rows) |-> rows[i][1]])
    ELSE IF Len(rows) = 1 THEN Series(rows[1])
    ELSE DataFrame(rows)

\* column vectors accepted whatever their length
format_distribution_parameters_any_length(quantiles, parameters) ==
    LET q == IF quantiles.kind = "series" THEN quantiles
             ELSE Series(<<quantiles.value>>)
        arrays == SelectSeq(parameters, LAMBDA v : v.kind = "array")
        shape == IF arrays # <<>> THEN array_shape_of(arrays[1]) ELSE <<1, 1>>
    IN  IF \E i \in 1..Len(arrays) : array_shape_of(arrays[i]) # shape
        THEN ValueError("All distribution parameters must have the same shape or be scalars.")
        ELSE IF arrays # <<>> /\ shape[1] # 1 /\ shape[2] # 1
        THEN ValueError("All distribution parameters must be one-dimensional or be scalars.")
        ELSE [kind |-> "tuple",
              values |-> <<q>> \o [i \in 1..Len(parameters) |->
                  IF parameters[i].kind = "array" THEN parameters[i]
                  ELSE np_full(shape, parameters[i].value)]]

\* _format_distribution_parameters: the flat tuple (quantiles, *parameters)
format_distribution_parameters(quantiles, parameters) ==
    LET q == IF quantiles.kind = "series" THEN quantiles
             ELSE Series(<<quantiles.value>>)
        arrays == SelectSeq(parameters, LAMBDA v : v.kind = "array")
        shape == IF arrays # <<>> THEN array_shape_of(arrays[1]) ELSE <<1, 1>>
    IN  IF \E i \in 1..Len(arrays) : array_shape_of(arrays[i]) # shape
        THEN ValueError("All distribution parameters must have the same shape or be scalars.")
        ELSE IF arrays # <<>> /\ shape[2] = 1 /\ shape[1] # Len(q.values)
        THEN ValueError("If distribution parameters are column vectors, they must havethe same length as quantiles.")
        ELSE IF arrays # <<>> /\ shape[1] # 1 /\ shape[2] # 1
        THEN ValueError("All distribution parameters must be one-dimensional or be scalars.")
        ELSE [kind |-> "tuple",
              values |-> <<q>> \o [i \in 1..Len(parameters) |->
                  IF parameters[i].kind = "array" THEN parameters[i]
                  ELSE np_full(shape, parameters[i].value)]]

\* scipy.stats.gamma.ppf for shape 1 (the exponential distribution):
\* -scale * ln(1 - q), the logarithm by its series q + q^2/2 + q^3/3
gamma_ppf(q, a, scale) ==
    IF a # One THEN OutOfRange
    ELSE IF RLess(q, Zero) \/ RLess(One, q) THEN NaN
    ELSE IF q = One THEN PosInf
    ELSE RMul(scale, RAdd(q, RAdd(RDiv(RMul(q, q), R(2)),
                                  RDiv(RMul(q, RMul(q, q)), R(3)))))

\* a quantile equal to p_zero counted as non-zero
zero_inflated_gamma_ppf_inclusive(quantiles, p_zero, shape, scale) ==
    LET f == format_distribution_parameters(quantiles, <<p_zero, shape, scale>>)
        at(a, i, j) == a.rows[IF Len(a.rows) = 1 THEN 1 ELSE i][j]
    IN  IF f.kind = "ValueError" THEN f
        ELSE squeeze([i \in 1..Len(f.values[1].values) |->
                      [j \in 1..Len(f.values[2].rows[1]) |->
                          IF ~RLess(f.values[1].values[i], at(f.values[2], i, j))
                          THEN gamma_ppf(f.values[1].values[i],
                                         at(f.values[3], i, j), at(f.values[4], i, j))
                          ELSE Zero]])

\* distributions.zero_inflated_gamma_ppf
zero_inflated_gamma_ppf(quantiles, p_zero, shape, scale) ==
    LET f == format_distribution_parameters(quantiles, <<p_zero, shape, scale>>)
        \* numpy broadcasting of the (m, 1) quantiles against the parameters
        at(a, i, j) == a.rows[IF Len(a.rows) = 1 THEN 1 ELSE i][j]
    IN  IF f.kind = "ValueError" THEN f
        ELSE squeeze([i \in 1..Len(f.values[1].values) |->
                      [j \in 1..Len(f.values[2].rows[1]) |->
                          \* non_zero = quantiles_values > p_zero
                          IF RLess(at(f.values[2], i, j), f.values[1].values[i])
                          THEN gamma_ppf(f.values[1].values[i],
                                         at(f.values[3], i, j), at(f.values[4], i, j))
                          ELSE Zero]])

\* distributions.stretched_truncnorm_ppf: `quantiles, (loc, scale) = ...`
\* unpacks the flat tuple (quantiles, loc, scale) into two targets, which
\* raises for every input; lines 67-82 are never reached
stretched_truncnorm_ppf(quantiles, loc, scale) ==
    LET f == format_distribution_parameters(quantiles, <<loc, scale>>)
    IN  IF f.kind = "ValueError" THEN f
        ELSE ValueError("too many values to unpack (expected 2)")

(***************************************************************************)
(* Demographics and Wheat pipelines.                                       *)
(***************************************************************************)
\* Demographics.total_population_source
total_population(t) == R(female_population_size[t] + male_population_size[t])

get_natural_consumption_rate(t) ==
    from_yearly(RMul(total_population(t), consumption_draw[t]), step_size)

\* consumption that is not rationed until the next harvest
consumption_rate_source_unrationed(t) ==
    row_min(wheat_stores[t], wheat_stores[t], get_natural_consumption_rate(t))

\* Wheat.consumption_rate_source, registered as a value producer
consumption_rate_source(t) ==
    LET steps_to_next_harvest == Frac(next_harvest_date - clock, step_size)
        store_depletion_rate == RDiv(wheat_stores[t], steps_to_next_harvest)
        natural_consumption_rate == get_natural_consumption_rate(t)
    IN  row_min(wheat_stores[t], store_depletion_rate, natural_consumption_rate)

\* an accumulation of the projected yield on every step
harvest_quantity_source_every_step(col, t) == col[t]

\* Wheat.harvest_quantity_source, reading the column col
harvest_quantity_source(col, t) ==
    IF crosses(clock, next_harvest_date, step_size) THEN col[t] ELSE Zero

\* Wheat.modify_mortality_rate
modify_mortality_rate(t, target) ==
    LET natural_consumption == get_natural_consumption_rate(t)
        actual_consumption == consumption_rate_source(t)
        effect == RPow(RDiv(natural_consumption, actual_consumption), 10)
    IN  RMul(target, effect)

\* all arable land cultivated, however few people there are
initialize_projected_yield_all_arable(total, arable, per_capita, land_productivity) ==
    RMul(arable, land_productivity)

\* Wheat.initialize_projected_yield
initialize_projected_yield(total, arable, per_capita, land_productivity) ==
    LET cultivable == RMul(total, per_capita)
        land_under_cultivation ==
            IF RLess(cultivable, arable) THEN cultivable ELSE arable
    IN  RMul(land_under_cultivation, land_productivity)

(***************************************************************************)
(* Yield modifiers.                                                        *)
(***************************************************************************)
cumulative_dry_days_window ==
    [exposure_mean |-> Frac(9034, 100), exposure_sd |-> Frac(9412, 1000),
     effect_mean |-> One, effect_sd |-> Frac(1, 10), correlation_type |-> "negative"]

mid_growth ==
    [exposure_mean |-> Frac(8541, 10), exposure_sd |-> Frac(1393, 10),
     effect_mean |-> One, effect_sd |-> Frac(2, 10), correlation_type |-> "positive"]

late_growth ==
    [exposure_mean |-> Frac(8375, 10), exposure_sd |-> Frac(1356, 10),
     effect_mean |-> One, effect_sd |-> Frac(3, 10), correlation_type |-> "positive"]

\* AccumulationWindow.get_effect
get_effect(window, exposure_data) ==
    LET z == RDiv(RSub(exposure_data, window.exposure_mean), window.exposure_sd)
        z_scores == IF window.correlation_type = "negative" THEN RNeg(z) ELSE z
    IN  RAdd(window.effect_mean, RMul(window.effect_sd, z_scores))

\* TemperatureEffect.modify_yield
temperature_modify_yield(t, target) ==
    RMul(target, effect_of_temperature_on_yield(temperature[t].n))

\* a view of RainfallEffectOnWheat on every tile
rainfall_effect_population_view_query_none(t) == TRUE

\* RainfallEffectOnWheat.population_view_query: "is_village == True"
rainfall_effect_population_view_query(t) == is_village[t]

\* every step counted as a step of the growing season
in_growing_season_always(sowing_date, harvest_date) == TRUE

\* the test of Wheat.on_time_step and of
\* RainfallEffectOnWheat.on_time_step_prepare: the harvest comes before
\* the next sowing
in_growing_season(sowing_date, harvest_date) == harvest_date < sowing_date

\* a dry day counted whatever the day before was
cumulatively_dry_every_dry_day(previously_dry, rain) == rain = Zero

\* RainfallEffectOnWheat.on_time_step_prepare: the rows that add a dry day
cumulatively_dry(previously_dry, rain) == previously_dry /\ rain = Zero

\* the late-growth window opening with the mid-growth window
rainfall_accumulated_in_overlapping(event_time, harvest_date) ==
    IF event_time > harvest_date - Timedelta(180) THEN "late" ELSE "none"

\* RainfallEffectOnWheat.on_time_step_prepare: the accumulator that the
\* rainfall of a step ending at event_time is added to
rainfall_accumulated_in(event_time, harvest_date) ==
    IF event_time > harvest_date - Timedelta(90) THEN "late"
    ELSE IF event_time > harvest_date - Timedelta(180) THEN "mid"
    ELSE "none"

\* the dry-days and late-growth effects applied on every step of the last
\* 90 days before the harvest
rainfall_modify_yield_final_90_days(t, target) ==
    LET clock_time == clock
        event_time == clock + step_size
    IN  IF clock_time < rain_next_harvest_date - Timedelta(90)
           /\ rain_next_harvest_date - Timedelta(90) <= event_time
        THEN RMul(target, get_effect(mid_growth, rainfall_mid_growth[t]))
        ELSE IF rain_next_harvest_date - Timedelta(90) <= clock_time
                /\ clock_time < rain_next_harvest_date
        THEN RMul(target,
                  RMul(get_effect(cumulative_dry_days_window, cumulative_dry_days[t]),
                       get_effect(late_growth, rainfall_late_growth[t])))
        ELSE target

\* RainfallEffectOnWheat.modify_yield
rainfall_modify_yield(t, target) ==
    LET clock_time == clock
        event_time == clock + step_size
    IN  IF clock_time < rain_next_harvest_date - Timedelta(90)
           /\ rain_next_harvest_date - Timedelta(90) <= event_time
        THEN RMul(target, get_effect(mid_growth, rainfall_mid_growth[t]))
        ELSE IF clock_time < rain_next_harvest_date
                /\ rain_next_harvest_date <= event_time
        THEN RMul(target,
                  RMul(get_effect(cumulative_dry_days_window, cumulative_dry_days[t]),
                       get_effect(late_growth, rainfall_late_growth[t])))
        ELSE target

\* a projected yield that no modifier touches
get_projected_yield_unmodified(t) == projected_wheat_harvest[t]

\* the wheat.projected_harvest pipeline: source, then both modifiers
get_projected_yield(t) ==
    rainfall_modify_yield(t, temperature_modify_yield(t, projected_wheat_harvest[t]))

(***************************************************************************)
(* Observations of the current step (history, not program state).          *)
(***************************************************************************)
StepStart(stores, projected, dry, mid, late, sowing, harvest) ==
    [stores0 |-> stores, projected0 |-> projected,
     dry0 |-> dry, mid0 |-> mid, late0 |-> late,
     sowing0 |-> sowing, harvest0 |-> harvest,
     consumption |-> [t \in Tiles |-> Zero],
     accumulation |-> [t \in Tiles |-> Zero],
     natural |-> [t \in Tiles |-> Zero],
     population_at_update |-> [t \in Tiles |-> 0],
     base_mortality |-> [t \in Tiles |-> Zero],
     mortality |-> [t \in Tiles |-> Zero],
     natural_at_mortality |-> [t \in Tiles |-> Zero],
     actual_at_mortality |-> [t \in Tiles |-> Zero],
     weather_written |-> FALSE,
     rainfall_generated |-> [t \in Tiles |-> NaN],
     weather_written_at_read |-> FALSE,
     rainfall_read |-> [t \in Tiles |-> NaN],
     dry_prepared |-> dry,
     population_written |-> FALSE,
     population_written_at_read |-> FALSE,
     previous_rainfall |-> [t \in Tiles |-> NaN],
     regionally_dry |-> FALSE,
     sizes_at_update |-> [t \in Tiles |-> <<0, 0>>],
     fertility_rate |-> [t \in Tiles |-> <<Zero, Zero>>],
     mortality_rate |-> [t \in Tiles |-> <<Zero, Zero>>],
     sizes_unrounded |-> [t \in Tiles |-> <<Zero, Zero>>]]

(***************************************************************************)
(* Setup and population initialisation.                                    *)
(***************************************************************************)
\* scaled probabilities capped at 1.0
scale_probabilities_to_mean_probability_capped(target_probability, raw_probabilities) ==
    LET mean_weight == RDiv(RAdd(raw_probabilities[1], raw_probabilities[2]),
                            R(Len(raw_probabilities)))
    IN  Series([t \in DOMAIN raw_probabilities |->
            RMin(RDiv(RMul(raw_probabilities[t], target_probability), mean_weight),
                 One)])

\* village.scale_probabilities_to_mean_probability
scale_probabilities_to_mean_probability(target_probability, raw_probabilities) ==
    LET mean_weight == RDiv(RAdd(raw_probabilities[1], raw_probabilities[2]),
                            R(Len(raw_probabilities)))
        probabilities == [t \in DOMAIN raw_probabilities |->
            RDiv(RMul(raw_probabilities[t], target_probability), mean_weight)]
    IN  IF \E t \in DOMAIN probabilities : RLess(One, probabilities[t])
        THEN ValueError("Probabilities must be <= 1.0")
        ELSE Series(probabilities)

Init ==
    \E start \in StartDates, map \in VillageConfigurations,
       village \in [Tiles -> BOOLEAN],
       land \in [Tiles -> ArableLandSamples],
       size \in [Tiles -> VillageSizeSamples],
       ratio \in [Tiles -> SexRatioSamples],
       fdraw \in [Tiles -> RoundingDraws], mdraw \in [Tiles -> RoundingDraws],
       per_capita \in [Tiles -> InitialStoresSamples],
       cultivation \in [Tiles -> LandCultivationSamples],
       productivity \in [Tiles -> LandProductivitySamples],
       consumption \in [Tiles -> ConsumptionSamples] :
      LET total_village_size == [t \in Tiles |-> RMul(size[t], land[t])]
          female == [t \in Tiles |->
              IF village[t]
              THEN round_stochastic(
                       RDiv(RMul(total_village_size[t], ratio[t]), R(2)), fdraw[t])
              ELSE 0]
          male == [t \in Tiles |->
              IF village[t]
              THEN round_stochastic(
                       RMul(total_village_size[t],
                            RSub(One, RDiv(ratio[t], R(2)))), mdraw[t])
              ELSE 0]
          stores == [t \in Tiles |->
              IF village[t]
              THEN RMul(R(female[t] + male[t]), per_capita[t])
              ELSE Zero]
          projected == [t \in Tiles |->
              IF village[t]
              THEN initialize_projected_yield(R(female[t] + male[t]), land[t],
                                              cultivation[t], productivity[t])
              ELSE Zero]
          sowing == get_next_annual_event_date(
                        start, WHEAT_SOWING_DATE.month, WHEAT_SOWING_DATE.day)
          harvest == get_next_annual_event_date(
                        start, WHEAT_HARVEST_DATE.month, WHEAT_HARVEST_DATE.day)
          zeros == [t \in Tiles |-> Zero]
          village_probabilities == scale_probabilities_to_mean_probability(
              map.probability,
              [t \in Tiles |-> terrain_village_weight(map.terrain[t])])
          failed == village_probabilities.kind = "ValueError"
      IN  /\ IF failed
             THEN \* Village raises: nothing after Map's columns is written
                  /\ village = [t \in Tiles |-> FALSE]
                  /\ land = [t \in Tiles |-> One]
             ELSE \* randomness.choice: an outcome of non-zero probability
                  \A t \in Tiles :
                      /\ village[t] => RLess(Zero, village_probabilities.values[t])
                      /\ ~village[t] => RLess(village_probabilities.values[t], One)
          /\ x = [t \in Tiles |-> t - 1]
          /\ y = [t \in Tiles |-> 0]
          /\ terrain = map.terrain
          /\ mean_village_probability = map.probability
          /\ created_columns =
                 IF failed THEN {} ELSE {"is_village", "arable_land"}
          /\ ppf_call = [kind |-> "none"]
          /\ clock = Timestamp(start[1], start[2], start[3])
          /\ step_size \in StepSizes
          /\ steps_taken = 0
          /\ phase = "prepare"
          /\ handled = {}
          /\ wheat_first \in BOOLEAN
          /\ aborted = failed
          /\ next_sowing_date = sowing
          /\ next_harvest_date = harvest
          /\ rain_next_sowing_date = sowing
          /\ rain_next_harvest_date = harvest
          /\ is_village = village
          /\ arable_land = IF failed THEN [t \in Tiles |-> NaN] ELSE land
          /\ temperature = [t \in Tiles |-> NaN]
          /\ rainfall = [t \in Tiles |-> NaN]
          /\ female_population_size = female
          /\ male_population_size = male
          /\ wheat_stores = stores
          /\ projected_wheat_harvest = projected
          /\ previous_day_dry = [t \in Tiles |-> FALSE]
          /\ cumulative_dry_days = zeros
          /\ rainfall_mid_growth = zeros
          /\ rainfall_late_growth = zeros
          /\ consumption_draw =
                 [t \in Tiles |-> IF village[t] THEN consumption[t] ELSE Zero]
          /\ seen = StepStart(stores, projected, zeros, zeros, zeros,
                              sowing, harvest)

(***************************************************************************)
(* The event loop: listeners of a phase run in priority order, listeners   *)
(* of equal priority in registration order; the clock moves after cleanup. *)
(***************************************************************************)
Listeners(p) ==
    IF p = "prepare" THEN {"Weather", "RainfallEffectOnWheat"}
    ELSE IF p = "main" THEN {"Demographics", "Wheat"}
    ELSE IF p = "cleanup" THEN {"Wheat", "RainfallEffectOnWheat"}
    ELSE {}

NextPhase(p) ==
    IF p = "prepare" THEN "main"
    ELSE IF p = "main" THEN "cleanup"
    ELSE "step_forward"

\* every component listening with the framework's default priority
time_step_prepare_priority_default(c) == 5

\* Weather.time_step_prepare_priority; the other components keep the default
time_step_prepare_priority(c) == IF c = "Weather" THEN 2 ELSE 5

\* the priority with which component c listens to phase p
Priority(p, c) == IF p = "prepare" THEN time_step_prepare_priority(c) ELSE 5

\* listener c of phase p may run now: the listeners of smaller priority
\* number have run
Ready(p, c) ==
    /\ ~aborted /\ phase = p /\ c \notin handled
    /\ \A other \in Listeners(p) :
           Priority(p, other) < Priority(p, c) => other \in handled

\* listener c has run
Done(c) ==
    IF handled \cup {c} = Listeners(phase)
    THEN phase' = NextPhase(phase) /\ handled' = {}
    ELSE phase' = phase /\ handled' = handled \cup {c}

(***************************************************************************)
(* The population table and the columns each listener passes to            *)
(* population_view.update.                                                 *)
(***************************************************************************)
\* constants/columns.py, with the stores column of the wheat resource
Columns ==
    {"x", "y", "terrain", "is_village", "arable_land", "temperature",
     "rainfall", "female_population_size", "male_population_size",
     "wheat_stores", "projected_wheat_harvest", "previous_day_dry",
     "cumulative_dry_days", "rainfall_mid_growth", "rainfall_late_growth"}

\* the population table: one column per name, one row per tile
Table ==
    [x |-> x, y |-> y, terrain |-> terrain, is_village |-> is_village,
     arable_land |-> arable_land, temperature |-> temperature,
     rainfall |-> rainfall,
     female_population_size |-> female_population_size,
     male_population_size |-> male_population_size,
     wheat_stores |-> wheat_stores,
     projected_wheat_harvest |-> projected_wheat_harvest,
     previous_day_dry |-> previous_day_dry,
     cumulative_dry_days |-> cumulative_dry_days,
     rainfall_mid_growth |-> rainfall_mid_growth,
     rainfall_late_growth |-> rainfall_late_growth]

\* every listener updating the whole table
columns_updated_whole_table(p, c) == Columns

\* the columns listener c of phase p can pass to population_view.update
columns_updated(p, c) ==
    IF p = "prepare" /\ c = "Weather" THEN {"temperature", "rainfall"}
    ELSE IF p = "prepare" /\ c = "RainfallEffectOnWheat"
    THEN {"cumulative_dry_days", "rainfall_mid_growth", "rainfall_late_growth"}
    ELSE IF p = "main" /\ c = "Demographics"
    THEN {"female_population_size", "male_population_size"}
    ELSE IF p = "main" /\ c = "Wheat"
    THEN {"projected_wheat_harvest", "wheat_stores"}
    ELSE IF p = "cleanup" /\ c = "Wheat" THEN {"projected_wheat_harvest"}
    ELSE IF p = "cleanup" /\ c = "RainfallEffectOnWheat"
    THEN {"previous_day_dry", "cumulative_dry_days", "rainfall_mid_growth",
          "rainfall_late_growth"}
    ELSE {}

\* listener c runs in this transition
Runs(c) ==
    /\ c \in Listeners(phase) \ handled
    /\ c \in handled' \/ phase' # phase

\* the columns whose values differ after this transition
ColumnsChanged == {col \in Columns : Table[col] # Table'[col]}

(***************************************************************************)
(* Prepare phase.                                                          *)
(***************************************************************************)
\* a dry day that is dry on the first tile only
rainfall_source_dry_on_first_tile(is_dry, draws, regional_rainfall) ==
    IF is_dry
    THEN Series([t \in Tiles |-> IF t = 1 THEN Zero ELSE regional_rainfall])
    ELSE stretched_truncnorm_ppf(Series(draws), Scalar(regional_rainfall),
                                 Scalar(RAINFALL_LOCAL_VARIABILITY))

\* Weather.rainfall_source: is_dry is the outcome of the single draw
\* is_dry_propensity < dry_probability
rainfall_source(is_dry, draws, regional_rainfall) ==
    IF is_dry
    THEN Series([t \in Tiles |-> Zero])
    ELSE stretched_truncnorm_ppf(Series(draws), Scalar(regional_rainfall),
                                 Scalar(RAINFALL_LOCAL_VARIABILITY))

\* Weather.on_time_step_prepare (priority 2: before the other listeners)
WeatherPrepare ==
    /\ Ready("prepare", "Weather")
    /\ \E is_dry \in BOOLEAN, temperatures \in [Tiles -> Temperatures],
          regional_rainfall \in RainfallSamples,
          draws \in [Tiles -> RoundingDraws] :
         LET local_rainfall == rainfall_source(is_dry, draws, regional_rainfall)
         IN  IF local_rainfall.kind = "ValueError"
             THEN \* rainfall_source raises before the update
                  /\ aborted' = TRUE
                  /\ UNCHANGED <<weather, seen>>
             ELSE /\ aborted' = FALSE
                  /\ temperature' = [t \in Tiles |-> R(temperatures[t])]
                  /\ rainfall' = [t \in Tiles |-> local_rainfall.values[t]]
                  /\ seen' = [seen EXCEPT
                         !.weather_written = TRUE,
                         !.regionally_dry = is_dry,
                         !.rainfall_generated =
                             [t \in Tiles |-> local_rainfall.values[t]]]
    /\ Done("Weather")
    /\ UNCHANGED <<ppf_call, clock, steps_taken, config, dates, rain_dates,
                   population, wheat_stores, projected_wheat_harvest,
                   previous_day_dry, accumulators, consumption_draw>>

\* RainfallEffectOnWheat.on_time_step_prepare
RainfallPrepare ==
    /\ Ready("prepare", "RainfallEffectOnWheat")
    /\ LET event_time == clock + step_size
           growing == in_growing_season(rain_next_sowing_date,
                                        rain_next_harvest_date)
           window == rainfall_accumulated_in(event_time, rain_next_harvest_date)
           late == window = "late"
           mid == window = "mid"
       IN  /\ cumulative_dry_days' = [t \in Tiles |->
                  IF growing /\ rainfall_effect_population_view_query(t)
                     /\ cumulatively_dry(previous_day_dry[t], rainfall[t])
                  THEN RAdd(cumulative_dry_days[t], One)
                  ELSE cumulative_dry_days[t]]
           /\ rainfall_late_growth' = [t \in Tiles |->
                  IF growing /\ rainfall_effect_population_view_query(t) /\ late
                  THEN RAdd(rainfall_late_growth[t], rainfall[t])
                  ELSE rainfall_late_growth[t]]
           /\ rainfall_mid_growth' = [t \in Tiles |->
                  IF growing /\ rainfall_effect_population_view_query(t) /\ mid
                  THEN RAdd(rainfall_mid_growth[t], rainfall[t])
                  ELSE rainfall_mid_growth[t]]
    /\ \A t \in Tiles : InRange(rainfall_late_growth'[t])
                        /\ InRange(rainfall_mid_growth'[t])
    /\ seen' = [seen EXCEPT
           !.weather_written_at_read = seen.weather_written,
           !.rainfall_read = rainfall,
           !.dry_prepared = cumulative_dry_days']
    /\ Done("RainfallEffectOnWheat")
    /\ UNCHANGED <<ppf_call, clock, steps_taken, aborted, config, dates, rain_dates,
                   weather, population, wheat_stores, projected_wheat_harvest,
                   previous_day_dry, consumption_draw>>

(***************************************************************************)
(* Main phase.                                                             *)
(***************************************************************************)
\* the mortality_rate pipeline for one column: source, Wheat's modifier,
\* then the rate post-processor
get_mortality_rate(t, sample) == from_yearly(modify_mortality_rate(t, sample), step_size)

\* the fertility_rate pipeline for one column
get_fertility_rate(sample) == from_yearly(sample, step_size)

\* births of each sex proportional to the population of that sex
next_population_size_own_sex(size, female, fertility_rate, mortality_rate) ==
    RAdd(size, RSub(RMul(fertility_rate, size), RMul(mortality_rate, size)))

\* Demographics.on_time_step, one column of one village before rounding:
\* villages += fertility_rate.mul(female) - mortality_rate * villages
next_population_size(size, female, fertility_rate, mortality_rate) ==
    RAdd(size, RSub(RMul(fertility_rate, female), RMul(mortality_rate, size)))

\* Demographics.on_time_step
DemographicsOnTimeStep ==
    /\ Ready("main", "Demographics")
    /\ wheat_first => "Wheat" \in handled
    /\ \E female_fertility \in [Tiles -> FertilitySamples],
          male_fertility \in [Tiles -> FertilitySamples],
          female_mortality \in [Tiles -> MortalitySamples],
          male_mortality \in [Tiles -> MortalitySamples],
          fdraw \in [Tiles -> RoundingDraws], mdraw \in [Tiles -> RoundingDraws] :
         LET female(t) == R(female_population_size[t])
             male(t) == R(male_population_size[t])
             fertility_rate == [t \in Villages |->
                 <<get_fertility_rate(female_fertility[t]),
                   get_fertility_rate(male_fertility[t])>>]
             mortality_rate == [t \in Villages |->
                 <<get_mortality_rate(t, female_mortality[t]),
                   get_mortality_rate(t, male_mortality[t])>>]
             new_f == [t \in Villages |->
                 next_population_size(female(t), female(t),
                                      fertility_rate[t][1], mortality_rate[t][1])]
             new_m == [t \in Villages |->
                 next_population_size(male(t), female(t),
                                      fertility_rate[t][2], mortality_rate[t][2])]
         IN  /\ \A t \in Villages : InRange(new_f[t]) /\ InRange(new_m[t])
             /\ seen' = [seen EXCEPT
                    !.base_mortality = [t \in Tiles |->
                        IF is_village[t] THEN female_mortality[t] ELSE @[t]],
                    !.mortality = [t \in Tiles |->
                        IF is_village[t]
                        THEN modify_mortality_rate(t, female_mortality[t]) ELSE @[t]],
                    !.natural_at_mortality = [t \in Tiles |->
                        IF is_village[t] THEN get_natural_consumption_rate(t) ELSE @[t]],
                    !.actual_at_mortality = [t \in Tiles |->
                        IF is_village[t] THEN consumption_rate_source(t) ELSE @[t]],
                    !.population_written = TRUE,
                    !.sizes_at_update = [t \in Tiles |->
                        IF is_village[t]
                        THEN <<female_population_size[t], male_population_size[t]>>
                        ELSE @[t]],
                    !.fertility_rate = [t \in Tiles |->
                        IF is_village[t] THEN fertility_rate[t] ELSE @[t]],
                    !.mortality_rate = [t \in Tiles |->
                        IF is_village[t] THEN mortality_rate[t] ELSE @[t]],
                    !.sizes_unrounded = [t \in Tiles |->
                        IF is_village[t] THEN <<new_f[t], new_m[t]>> ELSE @[t]]]
             /\ IF \E t \in Villages : ~IsFinite(new_f[t]) \/ ~IsFinite(new_m[t])
                THEN \* astype(int) raises on a non-finite value
                     /\ aborted' = TRUE
                     /\ UNCHANGED population
                ELSE /\ aborted' = FALSE
                     /\ female_population_size' = [t \in Tiles |->
                            IF is_village[t]
                            THEN round_stochastic(new_f[t], fdraw[t])
                            ELSE female_population_size[t]]
                     /\ male_population_size' = [t \in Tiles |->
                            IF is_village[t]
                            THEN round_stochastic(new_m[t], mdraw[t])
                            ELSE male_population_size[t]]
    /\ Done("Demographics")
    /\ UNCHANGED <<ppf_call, clock, steps_taken, config, dates, rain_dates, weather,
                   wheat_stores, projected_wheat_harvest, previous_day_dry,
                   accumulators, consumption_draw>>

\* Wheat.on_time_step, ending with Resource.on_time_step
WheatOnTimeStep ==
    /\ Ready("main", "Wheat")
    /\ ~wheat_first => "Demographics" \in handled
    /\ LET projected_yield == [t \in Tiles |->
               IF in_growing_season(next_sowing_date, next_harvest_date)
                  /\ is_village[t]
               THEN get_projected_yield(t)
               ELSE projected_wheat_harvest[t]]
           consumption(t) == consumption_rate_source(t)
           accumulation(t) == harvest_quantity_source(projected_yield, t)
           resource == [t \in Tiles |->
               IF is_village[t]
               THEN RAdd(RSub(wheat_stores[t], consumption(t)), accumulation(t))
               ELSE wheat_stores[t]]
       IN  /\ \A t \in Tiles : InRange(projected_yield[t]) /\ InRange(resource[t])
           /\ projected_wheat_harvest' = projected_yield
           /\ wheat_stores' = resource
           /\ seen' = [seen EXCEPT
                  !.consumption = [t \in Tiles |->
                      IF is_village[t] THEN consumption(t) ELSE @[t]],
                  !.accumulation = [t \in Tiles |->
                      IF is_village[t] THEN accumulation(t) ELSE @[t]],
                  !.natural = [t \in Tiles |->
                      IF is_village[t] THEN get_natural_consumption_rate(t) ELSE @[t]],
                  !.population_at_update = [t \in Tiles |->
                      female_population_size[t] + male_population_size[t]],
                  !.population_written_at_read = seen.population_written]
    /\ Done("Wheat")
    /\ UNCHANGED <<ppf_call, clock, steps_taken, aborted, config, dates, rain_dates,
                   weather, population, previous_day_dry, accumulators,
                   consumption_draw>>

(***************************************************************************)
(* Cleanup phase.                                                          *)
(***************************************************************************)
\* Wheat.on_time_step_cleanup
WheatCleanup ==
    /\ Ready("cleanup", "Wheat")
    /\ LET clock_time == clock
       IN  /\ next_sowing_date' =
                  IF crosses(clock_time, next_sowing_date, step_size)
                  THEN next_sowing_date + ONE_YEAR
                  ELSE next_sowing_date
           /\ IF crosses(clock_time, next_harvest_date, step_size)
              THEN /\ next_harvest_date' = next_harvest_date + ONE_YEAR
                   /\ \E cultivation \in [Tiles -> LandCultivationSamples],
                         productivity \in [Tiles -> LandProductivitySamples] :
                        projected_wheat_harvest' = [t \in Tiles |->
                            IF is_village[t]
                            THEN initialize_projected_yield(
                                     total_population(t), arable_land[t],
                                     cultivation[t], productivity[t])
                            ELSE projected_wheat_harvest[t]]
              ELSE UNCHANGED <<next_harvest_date, projected_wheat_harvest>>
    /\ \A t \in Tiles : InRange(projected_wheat_harvest'[t])
    /\ Done("Wheat")
    /\ UNCHANGED <<ppf_call, clock, steps_taken, aborted, config, rain_dates, weather,
                   population, wheat_stores, previous_day_dry, accumulators,
                   consumption_draw, seen>>

\* the cumulative rainfall columns zeroed in the cleanup of every step
reset_cumulative_rainfall_every_step(harvested, column, t) ==
    IF rainfall_effect_population_view_query(t) THEN Zero ELSE column[t]

\* RainfallEffectOnWheat.on_time_step_cleanup: the cumulative rainfall
\* columns are set to 0.0 if the harvest occurred during the step
reset_cumulative_rainfall(harvested, column, t) ==
    IF harvested /\ rainfall_effect_population_view_query(t) THEN Zero ELSE column[t]

\* RainfallEffectOnWheat.on_time_step_cleanup
RainfallCleanup ==
    /\ Ready("cleanup", "RainfallEffectOnWheat")
    /\ LET event_time == clock + step_size
           harvested == occurred_during(event_time, rain_next_harvest_date, step_size)
           reset(col) == [t \in Tiles |-> reset_cumulative_rainfall(harvested, col, t)]
       IN  /\ previous_day_dry' = [t \in Tiles |->
                  IF rainfall_effect_population_view_query(t)
                  THEN rainfall[t] = Zero
                  ELSE previous_day_dry[t]]
           /\ rain_next_sowing_date' =
                  IF occurred_during(event_time, rain_next_sowing_date, step_size)
                  THEN rain_next_sowing_date + ONE_YEAR
                  ELSE rain_next_sowing_date
           /\ rain_next_harvest_date' =
                  IF harvested THEN rain_next_harvest_date + ONE_YEAR
                  ELSE rain_next_harvest_date
           /\ cumulative_dry_days' = reset(cumulative_dry_days)
           /\ rainfall_mid_growth' = reset(rainfall_mid_growth)
           /\ rainfall_late_growth' = reset(rainfall_late_growth)
    /\ Done("RainfallEffectOnWheat")
    /\ UNCHANGED <<ppf_call, clock, steps_taken, aborted, config, dates, weather,
                   population, wheat_stores, projected_wheat_harvest,
                   consumption_draw, seen>>

\* the engine's step(): the clock moves once every phase has been emitted
StepForward ==
    /\ ~aborted
    /\ phase = "step_forward"
    /\ steps_taken < MaxSteps
    /\ clock' = clock + step_size
    /\ steps_taken' = steps_taken + 1
    /\ phase' = "prepare"
    /\ handled' = {}
    /\ \E consumption \in [Tiles -> ConsumptionSamples] :
         consumption_draw' =
             [t \in Tiles |-> IF is_village[t] THEN consumption[t] ELSE Zero]
    /\ seen' = [StepStart(wheat_stores, projected_wheat_harvest,
                          cumulative_dry_days, rainfall_mid_growth,
                          rainfall_late_growth, next_sowing_date,
                          next_harvest_date)
                    EXCEPT !.previous_rainfall = rainfall]
    /\ UNCHANGED <<ppf_call, aborted, config, dates, rain_dates, weather, population,
                   wheat_stores, projected_wheat_harvest, previous_day_dry,
                   accumulators>>

Next ==
    \/ WeatherPrepare
    \/ RainfallPrepare
    \/ DemographicsOnTimeStep
    \/ WheatOnTimeStep
    \/ WheatCleanup
    \/ RainfallCleanup
    \/ StepForward

Spec == Init /\ [][Next]_vars

(***************************************************************************)
(* The farming and demographics handlers on a table with rain: the values  *)
(* of the temperature and rainfall pipelines are given, as a test double   *)
(* of Weather's two sources supplies them, and the run starts from a table *)
(* of two villages in or out of the growing season.                        *)
(***************************************************************************)
FarmingSteps == 2
\* clocks around harvest - 180 days (2021-11-16), harvest - 90 days
\* (2022-02-14) and the harvest (2022-05-15), and one after the harvest
FarmingStartDates ==
    {<<2021, 11, 15>>, <<2022, 2, 13>>, <<2022, 5, 12>>, <<2022, 5, 14>>,
     <<2021, 6, 1>>}
FarmingStepSizes == {Day, Timedelta(30)}
\* the rainfall pipeline's values for the two tiles
GivenRainfall == {<<Zero, Zero>>, <<R(15), Zero>>, <<R(15), R(15)>>}
\* the step before the first: its rainfall, and the rainfall of the two
\* windows so far (none, or 15 short of the window's mean)
FarmingHistories ==
    {[rainfall |-> Zero, mid_growth |-> Zero, late_growth |-> Zero],
     [rainfall |-> R(15), mid_growth |-> Frac(8391, 10),
      late_growth |-> Frac(8225, 10)]}
\* the projected harvest of a village: the denominator of the mid-growth
\* effect before harvest - 90 days, the product of those of the dry-days
\* and late-growth effects after it
FarmingProjection(start) ==
    IF start[2] = 5 THEN R(4706 * 904) ELSE R(6965)
FarmingVillageSizes == <<730, 365>>

InitFarming ==
    \E start \in FarmingStartDates, history \in FarmingHistories :
      LET village == [t \in Tiles |-> TRUE]
          previous == history.rainfall
          mid_so_far == history.mid_growth
          stores == [t \in Tiles |-> IF village[t] THEN R(2920) ELSE Zero]
          projected == [t \in Tiles |->
                           IF village[t] THEN FarmingProjection(start) ELSE Zero]
          sowing == get_next_annual_event_date(
                        start, WHEAT_SOWING_DATE.month, WHEAT_SOWING_DATE.day)
          harvest == get_next_annual_event_date(
                        start, WHEAT_HARVEST_DATE.month, WHEAT_HARVEST_DATE.day)
          growing == harvest < sowing
          zeros == [t \in Tiles |-> Zero]
          mid == [t \in Tiles |->
                     IF village[t] /\ growing THEN mid_so_far ELSE Zero]
          in_late_growth ==
              growing /\ Timestamp(start[1], start[2], start[3])
                             >= harvest - Timedelta(90)
          late == [t \in Tiles |->
                      IF village[t] /\ in_late_growth
                      THEN history.late_growth ELSE Zero]
      IN  /\ x = [t \in Tiles |-> t - 1]
          /\ y = [t \in Tiles |-> 0]
          /\ terrain = [t \in Tiles |-> "grassland"]
          /\ mean_village_probability = Frac(1, 2)
          /\ created_columns = {"is_village", "arable_land"}
          /\ ppf_call = [kind |-> "none"]
          /\ clock = Timestamp(start[1], start[2], start[3])
          /\ step_size \in FarmingStepSizes
          /\ steps_taken = MaxSteps - FarmingSteps
          /\ phase = "prepare"
          /\ handled = {}
          /\ wheat_first \in BOOLEAN
          /\ aborted = FALSE
          /\ next_sowing_date = sowing
          /\ next_harvest_date = harvest
          /\ rain_next_sowing_date = sowing
          /\ rain_next_harvest_date = harvest
          /\ is_village = village
          /\ arable_land = [t \in Tiles |-> One]
          /\ temperature = [t \in Tiles |-> R(60)]
          /\ rainfall = [t \in Tiles |-> previous]
          /\ female_population_size =
                 [t \in Tiles |-> IF village[t] THEN FarmingVillageSizes[1] ELSE 0]
          /\ male_population_size =
                 [t \in Tiles |-> IF village[t] THEN FarmingVillageSizes[2] ELSE 0]
          /\ wheat_stores = stores
          /\ projected_wheat_harvest = projected
          /\ previous_day_dry = [t \in Tiles |-> village[t] /\ previous = Zero]
          /\ cumulative_dry_days = zeros
          /\ rainfall_mid_growth = mid
          /\ rainfall_late_growth = late
          /\ consumption_draw \in
                 {[t \in Tiles |-> IF village[t] THEN c ELSE Zero] :
                      c \in ConsumptionSamples}
          /\ seen = [StepStart(stores, projected, zeros, mid, late,
                               sowing, harvest)
                         EXCEPT !.previous_rainfall = [t \in Tiles |-> previous]]

\* Weather.on_time_step_prepare with the two pipeline values given
WeatherPrepareGiven ==
    /\ Ready("prepare", "Weather")
    /\ \E temperatures \in Temperatures, rain \in GivenRainfall :
         /\ temperature' = [t \in Tiles |-> R(temperatures)]
         /\ rainfall' = [t \in Tiles |-> rain[t]]
         /\ seen' = [seen EXCEPT !.weather_written = TRUE,
                                 !.rainfall_generated = [t \in Tiles |-> rain[t]]]
    /\ Done("Weather")
    /\ UNCHANGED <<ppf_call, clock, steps_taken, aborted, config, dates,
                   rain_dates, population, wheat_stores,
                   projected_wheat_harvest, previous_day_dry, accumulators,
                   consumption_draw>>

NextFarming ==
    \/ WeatherPrepareGiven
    \/ RainfallPrepare
    \/ DemographicsOnTimeStep
    \/ WheatOnTimeStep
    \/ WheatCleanup
    \/ RainfallCleanup
    \/ StepForward

SpecFarming == InitFarming /\ [][NextFarming]_vars

(***************************************************************************)
(* Direct calls of the distribution functions, as the unit tests make      *)
(* them: one call per run, its arguments drawn from bounded sets, recorded  *)
(* with its result in ppf_call.                                            *)
(***************************************************************************)
Probabilities == {Zero, Frac(1, 4), Frac(1, 2), One}
VectorLength == 2

\* a float or a Series of quantiles
QuantileInputs ==
    {Scalar(q) : q \in Probabilities}
        \cup {Series(qs) : qs \in [1..VectorLength -> Probabilities]}

\* a float, a row vector or a column vector of values drawn from S
ParameterInputs(S) ==
    {Scalar(v) : v \in S}
        \cup {Array(<<row>>) : row \in [1..VectorLength -> S]}
        \cup {Array([i \in 1..VectorLength |-> <<col[i]>>]) :
                  col \in [1..VectorLength -> S]}

\* arrays that fit no vector of quantiles: a longer row, a longer column and
\* a matrix
MismatchedInputs(v) ==
    {Array(<<[j \in 1..VectorLength + 1 |-> v]>>),
     Array([i \in 1..VectorLength + 1 |-> <<v>>]),
     Array([i \in 1..VectorLength |-> [j \in 1..VectorLength |-> v]])}

PZeroInputs == ParameterInputs(Probabilities) \cup MismatchedInputs(Frac(1, 2))
ShapeInputs ==
    {Scalar(One), Array(<<[j \in 1..VectorLength |-> One]>>),
     Array([i \in 1..VectorLength |-> <<One>>])} \cup MismatchedInputs(One)
ScaleInputs == {Scalar(One), Scalar(R(2))}
LocInputs == ParameterInputs({Zero, R(15)}) \cup MismatchedInputs(R(15))
LocalVariabilityInputs ==
    {Scalar(One), Scalar(RAINFALL_LOCAL_VARIABILITY),
     Array(<<[j \in 1..VectorLength |-> One]>>),
     Array([i \in 1..VectorLength |-> <<One>>])} \cup MismatchedInputs(One)

\* no simulation is running while the functions are called
InitDistributions ==
    /\ ppf_call = [kind |-> "none"]
    /\ clock = Timestamp(2021, 5, 13)
    /\ step_size = Day
    /\ steps_taken = 0
    /\ phase = "prepare"
    /\ handled = {}
    /\ wheat_first = FALSE
    /\ aborted = FALSE
    /\ mean_village_probability = Frac(1, 2)
    /\ x = [t \in Tiles |-> t - 1]
    /\ y = [t \in Tiles |-> 0]
    /\ terrain = <<"grassland", "desert">>
    /\ created_columns = {"is_village", "arable_land"}
    /\ is_village = [t \in Tiles |-> FALSE]
    /\ arable_land = [t \in Tiles |-> One]
    /\ next_sowing_date = Timestamp(2021, 10, 15)
    /\ next_harvest_date = Timestamp(2021, 5, 15)
    /\ rain_next_sowing_date = Timestamp(2021, 10, 15)
    /\ rain_next_harvest_date = Timestamp(2021, 5, 15)
    /\ temperature = [t \in Tiles |-> NaN]
    /\ rainfall = [t \in Tiles |-> NaN]
    /\ female_population_size = [t \in Tiles |-> 0]
    /\ male_population_size = [t \in Tiles |-> 0]
    /\ wheat_stores = [t \in Tiles |-> Zero]
    /\ projected_wheat_harvest = [t \in Tiles |-> Zero]
    /\ previous_day_dry = [t \in Tiles |-> FALSE]
    /\ cumulative_dry_days = [t \in Tiles |-> Zero]
    /\ rainfall_mid_growth = [t \in Tiles |-> Zero]
    /\ rainfall_late_growth = [t \in Tiles |-> Zero]
    /\ consumption_draw = [t \in Tiles |-> Zero]
    /\ seen = StepStart([t \in Tiles |-> Zero], [t \in Tiles |-> Zero],
                        [t \in Tiles |-> Zero], [t \in Tiles |-> Zero],
                        [t \in Tiles |-> Zero], Timestamp(2021, 10, 15),
                        Timestamp(2021, 5, 15))

simulation == <<clock, steps_taken, phase, handled, aborted, config, dates,
                rain_dates, weather, population, wheat_stores,
                projected_wheat_harvest, previous_day_dry, accumulators,
                consumption_draw, seen>>

\* zero_inflated_gamma_ppf(quantiles, p_zero, shape, scale)
CallZeroInflatedGammaPpf ==
    /\ ppf_call.kind = "none"
    /\ \E quantiles \in QuantileInputs, p_zero \in PZeroInputs,
          shape \in ShapeInputs, scale \in ScaleInputs :
         ppf_call' = [kind |-> "zero_inflated_gamma_ppf",
                      quantiles |-> quantiles,
                      parameters |-> <<p_zero, shape, scale>>,
                      result |-> zero_inflated_gamma_ppf(
                                     quantiles, p_zero, shape, scale)]
    /\ UNCHANGED simulation

\* stretched_truncnorm_ppf(quantiles, loc, scale)
CallStretchedTruncnormPpf ==
    /\ ppf_call.kind = "none"
    /\ \E quantiles \in QuantileInputs, loc \in LocInputs,
          scale \in LocalVariabilityInputs :
         ppf_call' = [kind |-> "stretched_truncnorm_ppf",
                      quantiles |-> quantiles,
                      parameters |-> <<loc, scale>>,
                      result |-> stretched_truncnorm_ppf(quantiles, loc, scale)]
    /\ UNCHANGED simulation

\* utilities.round_stochastic on a Series of one value: values in quarters,
\* the rounding propensity from an even grid of [0, 1)
RoundingDenominator == 8
RoundingPropensities ==
    {Frac(k, RoundingDenominator) : k \in 0..(RoundingDenominator - 1)}
RoundingValues == {Frac(k, 4) : k \in -8..8}

CallRoundStochastic ==
    /\ ppf_call.kind = "none"
    /\ \E value \in RoundingValues, draw \in RoundingPropensities :
           ppf_call' = [kind |-> "round_stochastic",
                        values |-> value,
                        rounding_propensities |-> draw,
                        result |-> round_stochastic(value, draw)]
    /\ UNCHANGED simulation

\* get_value_from_annual_cycle at an instant measured from the minimum date
\* of a year: the date itself, one day, half a cycle and a whole cycle later
CycleYears == {2021, 2023, 2024}
CycleMinDates == {<<1, 1>>, <<1, 15>>, <<8, 15>>, <<10, 1>>}
CycleOffsets == {0, 2 * Day, HalfYear, 2 * HalfYear}
CycleRanges == {<<Zero, One>>, <<Frac(1, 2), Frac(3, 2)>>}

CallGetValueFromAnnualCycle ==
    /\ ppf_call.kind = "none"
    /\ \E year \in CycleYears, min_date \in CycleMinDates,
          offset \in CycleOffsets, range \in CycleRanges :
           LET time == EighthsPerTick
                           * Timestamp(year, min_date[1], min_date[2])
                       + offset
           IN  ppf_call' = [kind |-> "get_value_from_annual_cycle",
                            year |-> year,
                            time |-> time,
                            min |-> range[1],
                            max |-> range[2],
                            min_date |-> min_date,
                            result |-> get_value_from_annual_cycle(
                                           time, range[1], range[2],
                                           min_date)]
    /\ UNCHANGED simulation

NextDistributions ==
    \/ CallZeroInflatedGammaPpf
    \/ CallStretchedTruncnormPpf
    \/ CallRoundStochastic
    \/ CallGetValueFromAnnualCycle

SpecDistributions == InitDistributions /\ [][NextDistributions]_vars

(***************************************************************************)
(* Properties.                                                             *)
(***************************************************************************)

\* C1: between steps (after setup and after every completed step) Wheat's
\* next_sowing_date and next_harvest_date are strictly later than the clock.
C1_DatesInFuture ==
    (phase = "prepare" /\ handled = {})
        => (next_sowing_date > clock /\ next_harvest_date > clock)

\* a step has completed whose end fell exactly on the harvest date
C1_Witness ==
    /\ phase = "prepare" /\ handled = {} /\ steps_taken > 0
    /\ next_harvest_date = clock + ONE_YEAR
    /\ next_sowing_date > clock

\* C2: Wheat's cleanup of the step covering (t, t + step_size] advances a
\* date by exactly ONE_YEAR if and only if t < date <= t + step_size; no
\* other listener and no other cleanup changes the dates.
C2_RolloverOnlyInCrossingCleanup ==
    [][LET wheat_cleanup_ran ==
               /\ phase = "cleanup" /\ "Wheat" \notin handled
               /\ (phase' = "step_forward" \/ "Wheat" \in handled')
           covered(date) == clock < date /\ date <= clock + step_size
       IN  /\ next_sowing_date' =
                  IF wheat_cleanup_ran /\ covered(next_sowing_date)
                  THEN next_sowing_date + ONE_YEAR ELSE next_sowing_date
           /\ next_harvest_date' =
                  IF wheat_cleanup_ran /\ covered(next_harvest_date)
                  THEN next_harvest_date + ONE_YEAR ELSE next_harvest_date]_vars

\* a step that rolled the sowing date over and left the harvest date alone
C2_Witness ==
    /\ phase = "step_forward"
    /\ next_sowing_date = seen.sowing0 + ONE_YEAR
    /\ next_harvest_date = seen.harvest0

\* C3 as claimed: after the step that crosses next_harvest_date, wheat_stores
\* is the stores before the step plus the projected_wheat_harvest held
\* before the step.
C3_StoresGainPreStepProjection ==
    (phase = "step_forward"
     /\ clock < seen.harvest0 /\ seen.harvest0 <= clock + step_size)
        => \A t \in Villages :
               wheat_stores[t] = RAdd(seen.stores0[t], seen.projected0[t])

\* C3 amended: on the step that crosses next_harvest_date, wheat_stores after
\* the main phase is the stores before the step, minus the step's
\* consumption, plus the projected_wheat_harvest as updated in this step:
\* the pre-step value times this step's temperature and rainfall factors
\* when next_harvest_date < next_sowing_date.
C3_StoresGainUpdatedProjection ==
    (phase = "cleanup" /\ handled = {}
     /\ clock < seen.harvest0 /\ seen.harvest0 <= clock + step_size)
        => \A t \in Villages :
             LET covered(date) == clock < date /\ date <= clock + step_size
                 temperature_factor ==
                     effect_of_temperature_on_yield(temperature[t].n)
                 rainfall_factor ==
                     IF covered(seen.harvest0 - Timedelta(90))
                     THEN get_effect(mid_growth, rainfall_mid_growth[t])
                     ELSE RMul(get_effect(cumulative_dry_days_window,
                                          cumulative_dry_days[t]),
                               get_effect(late_growth, rainfall_late_growth[t]))
                 harvested ==
                     IF seen.harvest0 < seen.sowing0
                     THEN RMul(RMul(seen.projected0[t], temperature_factor),
                               rainfall_factor)
                     ELSE seen.projected0[t]
             IN  wheat_stores[t] =
                     RAdd(RSub(seen.stores0[t], seen.consumption[t]), harvested)

\* a harvest step with consumption, a changed projection and a real harvest
C3_Witness ==
    /\ phase = "cleanup" /\ handled = {}
    /\ clock < seen.harvest0 /\ seen.harvest0 <= clock + step_size
    /\ \E t \in Villages :
         /\ seen.consumption[t] # Zero
         /\ projected_wheat_harvest[t] # seen.projected0[t]
         /\ projected_wheat_harvest[t] # Zero

\* C4: once the step that crosses next_harvest_date has completed,
\* cumulative_dry_days, rainfall_mid_growth and rainfall_late_growth are 0
\* for every village.
C4_AccumulatorsResetAtHarvest ==
    (phase = "step_forward"
     /\ clock < seen.harvest0 /\ seen.harvest0 <= clock + step_size)
        => \A t \in Villages :
               /\ cumulative_dry_days[t] = Zero
               /\ rainfall_mid_growth[t] = Zero
               /\ rainfall_late_growth[t] = Zero

\* a completed harvest step whose prepare phase had counted a dry day
C4_Witness ==
    /\ phase = "step_forward"
    /\ clock < seen.harvest0 /\ seen.harvest0 <= clock + step_size
    /\ \E t \in Villages : seen.dry_prepared[t] # Zero
    /\ \A t \in Villages : cumulative_dry_days[t] = Zero

\* C5: the accumulation pipeline returns the village's
\* projected_wheat_harvest on the step whose interval contains
\* next_harvest_date and 0 on every other step, and that is what the step
\* adds to wheat_stores.
C5_AccumulationOnlyAtHarvest ==
    ((phase = "main" /\ "Wheat" \in handled)
     \/ (phase = "cleanup" /\ "Wheat" \notin handled))
        => \A t \in Villages :
               /\ seen.accumulation[t] =
                      IF clock < seen.harvest0 /\ seen.harvest0 <= clock + step_size
                      THEN projected_wheat_harvest[t] ELSE Zero
               /\ wheat_stores[t] =
                      RAdd(RSub(seen.stores0[t], seen.consumption[t]),
                           seen.accumulation[t])

\* a harvest on a later step of a run: the steps before it accumulated 0
C5_Witness ==
    /\ phase = "cleanup" /\ "Wheat" \notin handled /\ steps_taken > 0
    /\ clock < seen.harvest0 /\ seen.harvest0 <= clock + step_size
    /\ \E t \in Villages : seen.accumulation[t] # Zero

\* C6 as claimed: wheat_stores is never negative.
C6_StoresNonNegative ==
    \A t \in Tiles : ~RLess(wheat_stores[t], Zero)

\* C7 as claimed: the population sizes are never negative; stated for the
\* villages whose stores were not negative before or after the step's update,
\* so that a violation does not come from a negative harvest.
C7_PopulationNonNegative ==
    \A t \in Tiles :
        (~RLess(seen.stores0[t], Zero) /\ ~RLess(wheat_stores[t], Zero))
            => (female_population_size[t] >= 0 /\ male_population_size[t] >= 0)

C9_StarvationRaisesMortality ==
    ((phase = "main" /\ "Demographics" \in handled)
     \/ phase \in {"cleanup", "step_forward"})
        => \A t \in Villages :
               RLess(seen.actual_at_mortality[t], seen.natural_at_mortality[t])
                   => RLess(seen.base_mortality[t], seen.mortality[t])

\* C10 as claimed: the quantity added to wheat_stores is never negative.
C10_HarvestNonNegative ==
    \A t \in Tiles : ~RLess(seen.accumulation[t], Zero)


\* C11: in every step Weather writes the step's weather before any other
\* handler reads it: the rainfall RainfallEffectOnWheat reads in its prepare
\* handler is the rainfall generated in this step (never the initial NaN or
\* a value left by the step before), later phases see that same rainfall,
\* and the dryness recorded at cleanup is the dryness of that rainfall.
C11_WeatherWrittenBeforeRead ==
    /\ ((phase = "prepare" /\ "RainfallEffectOnWheat" \in handled)
         \/ phase \in {"main", "cleanup", "step_forward"})
           => /\ seen.weather_written_at_read
              /\ \A t \in Tiles :
                     /\ IsFinite(seen.rainfall_read[t])
                     /\ seen.rainfall_read[t] = seen.rainfall_generated[t]
    /\ phase \in {"main", "cleanup", "step_forward"}
           => /\ seen.weather_written
              /\ rainfall = seen.rainfall_generated
              /\ \A t \in Tiles : IsFinite(temperature[t])
    /\ phase = "step_forward"
           => \A t \in Villages :
                  previous_day_dry[t] = (seen.rainfall_generated[t] = Zero)

\* a later step of the growing season in which the prepare handler counted
\* the dry day generated in that step
C11_Witness ==
    /\ phase = "main" /\ steps_taken > 0
    /\ \E t \in Villages :
         /\ seen.rainfall_read[t] = Zero
         /\ seen.dry_prepared[t] = RAdd(seen.dry0[t], One)

\* C12 as claimed: whatever the registration order, Wheat's main handler
\* reads total_population after Demographics has written the step's
\* population, so the population Wheat used is the one the step ends with.
C12_WheatReadsUpdatedPopulation ==
    phase \in {"cleanup", "step_forward"}
        => /\ Villages # {} => seen.population_written_at_read
           /\ \A t \in Villages :
                  seen.population_at_update[t] =
                      female_population_size[t] + male_population_size[t]

\* C13: in each phase of a step every column is written by at most one
\* component: a handler changes only columns it passes to
\* population_view.update, and no other listener of the same phase updates
\* any of those columns.
C13_OneWriterPerColumnPerPhase ==
    [][\A c \in Listeners(phase) :
           Runs(c) =>
               /\ ColumnsChanged \subseteq columns_updated(phase, c)
               /\ \A other \in Listeners(phase) \ {c} :
                      columns_updated(phase, other)
                          \cap columns_updated(phase, c) = {}]_vars

\* a main phase in which both handlers changed their columns: Wheat the
\* stores, Demographics the population Wheat had read
C13_Witness ==
    /\ phase = "cleanup"
    /\ \E t \in Villages :
         /\ wheat_stores[t] # seen.stores0[t]
         /\ seen.population_at_update[t] #
                female_population_size[t] + male_population_size[t]

\* C15: after initialisation no step changes x, y, terrain, is_village or
\* arable_land of any tile, no handler passes one of these columns to
\* population_view.update, and the set of tiles stays the same.
C15_StaticColumnsImmutable ==
    [][/\ UNCHANGED <<x, y, terrain, is_village, arable_land>>
       /\ \A col \in Columns : DOMAIN Table'[col] = DOMAIN Table[col]
       /\ \A p \in {"prepare", "main", "cleanup"} : \A c \in Listeners(p) :
              columns_updated(p, c)
                  \cap {"x", "y", "terrain", "is_village", "arable_land"} = {}]_vars

\* two completed steps of a run with a village: every other column of the
\* village has been written, the static ones are as created
C15_Witness ==
    /\ steps_taken = 2 /\ phase = "step_forward"
    /\ \E t \in Villages :
         /\ arable_land[t] = One
         /\ wheat_stores[t] # seen.stores0[t]
         /\ IsFinite(temperature[t])
    /\ x = [t \in Tiles |-> t - 1]

\* C16: if scaling the terrain weights to the configured mean village
\* probability gives a probability above 1.0, initialisation raises: the
\* run has ended before its first step and neither is_village nor
\* arable_land has been written for any tile.
C16_ProbabilityAboveOneRaises ==
    LET weights == [t \in Tiles |-> terrain_village_weight(terrain[t])]
        mean_weight == RDiv(RAdd(weights[1], weights[2]), R(2))
        scaled == [t \in Tiles |->
            RDiv(RMul(weights[t], mean_village_probability), mean_weight)]
    IN  (\E t \in Tiles : RLess(One, scaled[t]))
            => /\ aborted
               /\ steps_taken = 0 /\ phase = "prepare" /\ handled = {}
               /\ created_columns \cap {"is_village", "arable_land"} = {}
               /\ \A t \in Tiles : ~is_village[t] /\ IsNaN(arable_land[t])

\* grassland beside desert with mean probability 1: the grassland tile's
\* scaled probability is 2 and initialisation has raised
C16_Witness ==
    /\ terrain = <<"grassland", "desert">>
    /\ mean_village_probability = One
    /\ aborted /\ created_columns = {}

\* C17 as claimed: after a successful initialisation every daily step
\* completes; no handler raises, so the run never ends inside a step.
C17_DailyStepsComplete ==
    (step_size = Day /\ created_columns # {}) => ~aborted

\* the yield of the land a village's present population can cultivate, for
\* some sampled cultivation per capita and productivity
IsRecomputedYield(t) ==
    \E cultivation \in LandCultivationSamples,
       productivity \in LandProductivitySamples :
        LET cultivable == RMul(R(female_population_size[t]
                                 + male_population_size[t]), cultivation)
            land == IF RLess(cultivable, arable_land[t])
                    THEN cultivable ELSE arable_land[t]
        IN  projected_wheat_harvest[t] = RMul(land, productivity)

\* C18 as claimed: once the step whose interval crosses next_sowing_date
\* has completed, every village's projected_wheat_harvest is
\* min(arable_land, total_population * land_cultivation_per_capita)
\* * land_productivity.
C18_RecomputedAtSowing ==
    (phase = "step_forward"
     /\ clock < seen.sowing0 /\ seen.sowing0 <= clock + step_size)
        => \A t \in Villages : IsRecomputedYield(t)

\* C18 amended: the recomputation belongs to the step whose interval
\* crosses next_harvest_date; a step that crosses next_sowing_date without
\* crossing next_harvest_date leaves projected_wheat_harvest as it was.
C18_RecomputedAtHarvest ==
    phase = "step_forward"
        => /\ (clock < seen.harvest0 /\ seen.harvest0 <= clock + step_size)
                  => \A t \in Villages : IsRecomputedYield(t)
           /\ (/\ clock < seen.sowing0 /\ seen.sowing0 <= clock + step_size
               /\ ~(clock < seen.harvest0 /\ seen.harvest0 <= clock + step_size))
                  => \A t \in Villages :
                         projected_wheat_harvest[t] = seen.projected0[t]

\* a completed harvest step of a village whose population no longer
\* cultivates all its arable land: the new projection differs from the
\* harvested one and from the yield of all the arable land
C18_Witness ==
    /\ phase = "step_forward"
    /\ clock < seen.harvest0 /\ seen.harvest0 <= clock + step_size
    /\ \E t \in Villages :
         /\ female_population_size[t] + male_population_size[t] > 0
         /\ female_population_size[t] + male_population_size[t] < 1460
         /\ projected_wheat_harvest[t] # seen.projected0[t]
         /\ RLess(Zero, projected_wheat_harvest[t])

\* the array parameters of the recorded call
CallArrays == SelectSeq(ppf_call.parameters, LAMBDA v : v.kind = "array")

\* the number of quantiles of the recorded call
CallQuantiles ==
    IF ppf_call.quantiles.kind = "series" THEN Len(ppf_call.quantiles.values)
    ELSE 1

\* the quantiles of the recorded call, as a sequence
CallQuantileValues ==
    IF ppf_call.quantiles.kind = "series" THEN ppf_call.quantiles.values
    ELSE <<ppf_call.quantiles.value>>

\* the number of columns the parameters of the recorded call are
\* formatted to
CallColumns ==
    IF CallArrays = <<>> THEN 1 ELSE Len(CallArrays[1].rows[1])

\* the parameters of the recorded call are scalars, row vectors of one
\* length, or column vectors paired with the quantiles
CallWellFormed ==
    \/ CallArrays = <<>>
    \/ /\ \A i \in 1..Len(CallArrays) :
              array_shape_of(CallArrays[i]) = array_shape_of(CallArrays[1])
       /\ CallColumns = 1 => Len(CallArrays[1].rows) = CallQuantiles
       /\ CallColumns # 1 => Len(CallArrays[1].rows) = 1

\* parameter v of the recorded call for quantile i and column j
CallParameter(v, i, j) ==
    IF v.kind = "scalar" THEN v.value
    ELSE v.rows[IF Len(v.rows) = 1 THEN 1 ELSE i][j]

\* the cell of row i and column j of a result that squeeze() has reduced
\* from m rows and k columns
ResultCell(result, m, k, i, j) ==
    IF result.kind = "scalar" THEN result.value
    ELSE IF result.kind = "series"
    THEN (IF k = 1 THEN result.values[i] ELSE result.values[j])
    ELSE result.rows[i][j]

\* C19: for every quantile q and zero-probability p (a scalar, a column
\* vector paired with the quantiles or a row vector broadcast against
\* them) zero_inflated_gamma_ppf returns exactly 0 where q <= p and a
\* strictly positive value where q > p.
C19_ZeroIffQuantileAtMostPZero ==
    (ppf_call.kind = "zero_inflated_gamma_ppf" /\ CallWellFormed)
        => /\ ppf_call.result.kind # "ValueError"
           /\ \A i \in 1..CallQuantiles : \A j \in 1..CallColumns :
                LET value == ResultCell(ppf_call.result, CallQuantiles,
                                        CallColumns, i, j)
                IN  IF RLess(CallParameter(ppf_call.parameters[1], i, j),
                             CallQuantileValues[i])
                    THEN RLess(Zero, value)
                    ELSE value = Zero

\* a call with a row vector p_zero and two quantiles, one cell with the
\* quantile equal to p_zero (0) and one with the quantile above it
C19_Witness ==
    /\ ppf_call.kind = "zero_inflated_gamma_ppf"
    /\ ppf_call.quantiles = Series(<<Frac(1, 2), One>>)
    /\ ppf_call.parameters[1] = Array(<<<<Frac(1, 2), Frac(1, 4)>>>>)
    /\ ppf_call.result.kind = "frame"
    /\ ppf_call.result.rows[1][1] = Zero
    /\ RLess(Zero, ppf_call.result.rows[1][2])

\* C20 as claimed: stretched_truncnorm_ppf returns 0 wherever loc is 0: a
\* scalar 0 for scalar inputs, zeros for a vector of quantiles, and a zero
\* column for each zero entry of a vector loc.
C20_ZeroWhereLocIsZero ==
    ppf_call.kind = "stretched_truncnorm_ppf"
        => LET q == IF ppf_call.quantiles.kind = "series"
                    THEN ppf_call.quantiles.values
                    ELSE <<ppf_call.quantiles.value>>
               loc == ppf_call.parameters[1]
               rows == IF loc.kind = "array" THEN loc.rows
                       ELSE <<<<loc.value>>>>
               m == Len(q)
               k == Len(rows[1])
           IN  Len(rows) = 1 =>
                   /\ ppf_call.result.kind # "ValueError"
                   /\ \A i \in 1..m : \A j \in 1..k :
                        rows[1][j] = Zero
                            => ResultCell(ppf_call.result, m, k, i, j) = Zero

ResultHasClaimedShape ==
    /\ (ppf_call.quantiles.kind = "scalar" /\ CallArrays = <<>>)
           => ppf_call.result.kind = "scalar"
    /\ (ppf_call.quantiles.kind = "series" /\ CallQuantiles > 1
        /\ CallColumns = 1)
           => /\ ppf_call.result.kind = "series"
              /\ Len(ppf_call.result.values) = CallQuantiles
    /\ (ppf_call.quantiles.kind = "series" /\ CallQuantiles > 1
        /\ CallColumns > 1)
           => /\ ppf_call.result.kind = "frame"
              /\ Len(ppf_call.result.rows) = CallQuantiles
              /\ \A i \in 1..CallQuantiles :
                     Len(ppf_call.result.rows[i]) = CallColumns

\* C22 as claimed: for m quantiles both ppf functions return a scalar when
\* every input is a scalar, a vector of length m when the parameters are
\* scalars or m-by-1 column vectors, and an m-by-n table when the
\* parameters are 1-by-n row vectors.
C22_ResultShapeFollowsInputs ==
    (ppf_call.kind \in {"zero_inflated_gamma_ppf", "stretched_truncnorm_ppf"}
     /\ CallWellFormed)
        => ResultHasClaimedShape

\* the sum of round_stochastic(value, u) over the grid of propensities
RoundedTotal(value) ==
    LET RECURSIVE total(_)
        total(k) ==
            IF k < 0 THEN 0
            ELSE round_stochastic(value, Frac(k, RoundingDenominator))
                     + total(k - 1)
    IN  total(RoundingDenominator - 1)

\* C23: for a value v with fractional part f, round_stochastic returns
\* floor(v) + 1 exactly for the draws u < f and floor(v) for every other
\* draw of [0, 1); over evenly spread draws the mean result is v, and an
\* integer v is returned unchanged for every draw.
C23_RoundStochasticUnbiased ==
    ppf_call.kind = "round_stochastic"
        => LET v == ppf_call.values
               u == ppf_call.rounding_propensities
               floored == RFloor(v)
               f == RSub(v, R(floored))
           IN  /\ RLeq(R(floored), v) /\ RLess(v, R(floored + 1))
               /\ ppf_call.result
                      = (IF RLess(u, f) THEN floored + 1 ELSE floored)
               /\ (v.d = 1 => ppf_call.result = v.n)
               /\ Frac(RoundedTotal(v), RoundingDenominator) = v

\* a negative value with a fractional part, rounded up by a small draw
C23_Witness ==
    /\ ppf_call.kind = "round_stochastic"
    /\ ppf_call.values = Frac(-5, 4)
    /\ ppf_call.rounding_propensities = Frac(5, 8)
    /\ ppf_call.result = -1

\* the minimum date of the year the recorded instant was measured from
CycleMinimum ==
    EighthsPerTick
        * Timestamp(ppf_call.year, ppf_call.min_date[1], ppf_call.min_date[2])

\* C24 as claimed: for every year and every (month, day) min_date,
\* get_value_from_annual_cycle returns min at the min_date of that year and
\* max at min_date + 182.625 days, also when that later instant falls in
\* the next calendar year.
C24_MaxHalfAYearAfterMin ==
    ppf_call.kind = "get_value_from_annual_cycle"
        => /\ ppf_call.time = CycleMinimum => ppf_call.result = ppf_call.min
           /\ ppf_call.time = CycleMinimum + HalfYear
                  => ppf_call.result = ppf_call.max

\* C25 as claimed: for a quantile q > p_zero, zero_inflated_gamma_ppf
\* returns the Gamma(shape, scale) inverse CDF evaluated at the rescaled
\* quantile (q - p_zero) / (1 - p_zero), not at q itself.
C25_GammaAtRescaledQuantile ==
    (ppf_call.kind = "zero_inflated_gamma_ppf" /\ CallWellFormed)
        => \A i \in 1..CallQuantiles : \A j \in 1..CallColumns :
               LET q == CallQuantileValues[i]
                   p_zero == CallParameter(ppf_call.parameters[1], i, j)
                   shape == CallParameter(ppf_call.parameters[2], i, j)
                   scale == CallParameter(ppf_call.parameters[3], i, j)
                   rescaled == RDiv(RSub(q, p_zero), RSub(One, p_zero))
               IN  RLess(p_zero, q)
                       => ResultCell(ppf_call.result, CallQuantiles,
                                     CallColumns, i, j)
                              = gamma_ppf(rescaled, shape, scale)

\* Wheat's main handler runs in this transition, in the growing season
WheatUpdatesProjection ==
    /\ phase = "main"
    /\ Runs("Wheat")
    /\ next_harvest_date < next_sowing_date

\* the step's interval (clock, clock + step_size] holds the date
StepCrosses(date) == clock < date /\ date <= clock + step_size

\* the product of the cumulative-dry-days and late-growth effects
DryDaysAndLateGrowthEffect(t) ==
    RMul(get_effect(cumulative_dry_days_window, cumulative_dry_days[t]),
         get_effect(late_growth, rainfall_late_growth[t]))

\* C26 as claimed: the rainfall modifier multiplies the projected yield by
\* the mid-growth effect on the step crossing (next_harvest_date - 90
\* days), by the product of the cumulative-dry-days effect and the
\* late-growth effect on every step of the final 90 days before harvest,
\* and leaves it unchanged on every earlier step.
C26_LateEffectsOnEveryLateStep ==
    [][WheatUpdatesProjection
        => \A t \in Villages :
             LET target == temperature_modify_yield(t, projected_wheat_harvest[t])
                 H == rain_next_harvest_date
             IN  projected_wheat_harvest'[t] =
                     IF StepCrosses(H - Timedelta(90))
                     THEN RMul(target, get_effect(mid_growth, rainfall_mid_growth[t]))
                     ELSE IF H - Timedelta(90) <= clock /\ clock < H
                     THEN RMul(target, DryDaysAndLateGrowthEffect(t))
                     ELSE target]_vars

\* C26 amended: the rainfall modifier multiplies the projected yield by the
\* mid-growth effect on the step crossing (next_harvest_date - 90 days), by
\* the product of the cumulative-dry-days and late-growth effects on the
\* step crossing next_harvest_date (unless that step also crosses
\* next_harvest_date - 90 days), and leaves it unchanged on every other
\* step.
C26_LateEffectsOnHarvestStep ==
    [][WheatUpdatesProjection
        => \A t \in Villages :
             LET target == temperature_modify_yield(t, projected_wheat_harvest[t])
                 H == rain_next_harvest_date
             IN  projected_wheat_harvest'[t] =
                     IF StepCrosses(H - Timedelta(90))
                     THEN RMul(target, get_effect(mid_growth, rainfall_mid_growth[t]))
                     ELSE IF StepCrosses(H)
                     THEN RMul(target, DryDaysAndLateGrowthEffect(t))
                     ELSE target]_vars

\* a harvest step after Wheat's main handler: 15 of rain in the late-growth
\* window, and the projection multiplied by the two late effects
C26_Witness ==
    /\ phase = "cleanup" /\ handled = {}
    /\ StepCrosses(rain_next_harvest_date)
    /\ temperature[1] = R(60)
    /\ rainfall_late_growth[1] = R(15)
    /\ projected_wheat_harvest[1]
           = RMul(seen.projected0[1], DryDaysAndLateGrowthEffect(1))
    /\ projected_wheat_harvest[1] # seen.projected0[1]

\* RainfallEffectOnWheat's prepare handler runs in this transition, in the
\* growing season
RainfallIsAccumulated ==
    /\ phase = "prepare"
    /\ Runs("RainfallEffectOnWheat")
    /\ rain_next_harvest_date < rain_next_sowing_date

\* C27: on a growing-season step with event time e and harvest date H the
\* step's rainfall is added to rainfall_late_growth if e > H - 90 days,
\* otherwise to rainfall_mid_growth if e > H - 180 days, otherwise to
\* neither, and never to both; no rainfall is added to the mid-growth total
\* after the step that applies the mid-growth effect, and on that step the
\* total the effect reads already holds the step's own rainfall if the
\* step ends inside the window.
C27_RainfallAddedToOneWindow ==
    [][LET e == clock + step_size
           H == rain_next_harvest_date
           in_late == e > H - Timedelta(90)
           in_mid == ~in_late /\ e > H - Timedelta(180)
       IN  /\ RainfallIsAccumulated
                => \A t \in Villages :
                     /\ rainfall_late_growth'[t] =
                            IF in_late
                            THEN RAdd(rainfall_late_growth[t], rainfall[t])
                            ELSE rainfall_late_growth[t]
                     /\ rainfall_mid_growth'[t] =
                            IF in_mid
                            THEN RAdd(rainfall_mid_growth[t], rainfall[t])
                            ELSE rainfall_mid_growth[t]
                     /\ ~(/\ rainfall_late_growth'[t] # rainfall_late_growth[t]
                          /\ rainfall_mid_growth'[t] # rainfall_mid_growth[t])
                     /\ clock >= H - Timedelta(90)
                            => rainfall_mid_growth'[t] = rainfall_mid_growth[t]
           /\ (WheatUpdatesProjection /\ StepCrosses(H - Timedelta(90)))
                => \A t \in Villages :
                     rainfall_mid_growth[t] =
                         IF in_mid THEN RAdd(seen.mid0[t], rainfall[t])
                         ELSE seen.mid0[t]]_vars

\* the one-day step ending on harvest - 90 days, after the prepare phase:
\* its 15 of rain are in the mid-growth total, none in the late-growth one
C27_Witness ==
    /\ phase = "main" /\ handled = {}
    /\ rain_next_harvest_date < rain_next_sowing_date
    /\ clock + step_size = rain_next_harvest_date - Timedelta(90)
    /\ rainfall[1] = R(15)
    /\ rainfall_mid_growth[1] = RAdd(seen.mid0[1], R(15))
    /\ rainfall_late_growth[1] = seen.late0[1]

\* C28: on a growing-season step a village's cumulative_dry_days increases
\* by exactly 1 if and only if its rainfall is 0 in this step and was 0 in
\* the previous step, and is unchanged otherwise; every step's cleanup, in
\* and out of season, sets previous_day_dry to whether the step's rainfall
\* was 0, so the first dry day of a dry spell is not counted.
C28_DryDayCountedAfterDryDay ==
    [][/\ RainfallIsAccumulated
            => \A t \in Villages :
                 /\ previous_day_dry[t] = (seen.previous_rainfall[t] = Zero)
                 /\ cumulative_dry_days'[t] =
                        IF rainfall[t] = Zero /\ seen.previous_rainfall[t] = Zero
                        THEN RAdd(cumulative_dry_days[t], One)
                        ELSE cumulative_dry_days[t]
       /\ (phase = "cleanup" /\ Runs("RainfallEffectOnWheat"))
            => \A t \in Villages :
                 previous_day_dry'[t] = (rainfall[t] = Zero)]_vars

\* a dry day after a wet one, not counted, in a run that has counted the
\* second of two dry days in the other village
C28_Witness ==
    /\ phase = "main"
    /\ rain_next_harvest_date < rain_next_sowing_date
    /\ steps_taken = MaxSteps - FarmingSteps + 1
    /\ seen.previous_rainfall = <<R(15), Zero>>
    /\ rainfall = <<Zero, Zero>>
    /\ cumulative_dry_days[1] = seen.dry0[1]
    /\ cumulative_dry_days[2] = RAdd(seen.dry0[2], One)

\* C29: on every step taken while next_harvest_date < next_sowing_date
\* Wheat's main update overwrites the stored projected_wheat_harvest with
\* the stored value multiplied by the step's temperature factor and
\* rainfall factor, and the stores are updated from the overwritten value;
\* out of the growing season the column is left alone. The factors so
\* multiply up over the steps of the growing season.
C29_ProjectionOverwrittenEachStep ==
    [][(phase = "main" /\ Runs("Wheat"))
        => \A t \in Villages :
             LET temperature_factor ==
                     effect_of_temperature_on_yield(temperature[t].n)
                 rainfall_factor == rainfall_modify_yield(t, One)
                 harvested == IF StepCrosses(next_harvest_date)
                              THEN projected_wheat_harvest'[t] ELSE Zero
             IN  /\ projected_wheat_harvest'[t] =
                        IF next_harvest_date < next_sowing_date
                        THEN RMul(projected_wheat_harvest[t],
                                  RMul(temperature_factor, rainfall_factor))
                        ELSE projected_wheat_harvest[t]
                 /\ wheat_stores'[t] =
                        RAdd(RSub(wheat_stores[t], seen'.consumption[t]),
                             harvested)]_vars

\* the second step of a growing season after Wheat's main handler: the
\* projection of the run's start halved by each step's heat
C29_Witness ==
    /\ phase = "main" /\ "Wheat" \in handled
    /\ next_harvest_date < next_sowing_date
    /\ steps_taken = MaxSteps - FarmingSteps + 1
    /\ ~StepCrosses(rain_next_harvest_date - Timedelta(90))
    /\ ~StepCrosses(rain_next_harvest_date)
    /\ temperature[1] = R(100)
    /\ seen.projected0[1] = RMul(FarmingProjection(<<2021, 11, 15>>), Frac(1, 2))
    /\ projected_wheat_harvest[1]
           = RMul(FarmingProjection(<<2021, 11, 15>>), Frac(1, 4))

\* C30: each step, for each village and before rounding, the new female
\* size is female + female_fertility * female - female_mortality * female
\* and the new male size is male + male_fertility * female
\* - male_mortality * male; the stored counts are these values rounded
\* stochastically, each less than 1 away from the unrounded value.
C30_PopulationUpdate ==
    (seen.population_written /\ ~aborted)
        => \A t \in Villages :
             LET female == R(seen.sizes_at_update[t][1])
                 male == R(seen.sizes_at_update[t][2])
                 fertility == seen.fertility_rate[t]
                 mortality == seen.mortality_rate[t]
                 new_female == RSub(RAdd(female, RMul(fertility[1], female)),
                                    RMul(mortality[1], female))
                 new_male == RSub(RAdd(male, RMul(fertility[2], female)),
                                  RMul(mortality[2], male))
                 near(count, value) ==
                     /\ RLess(RSub(value, One), R(count))
                     /\ RLess(R(count), RAdd(value, One))
             IN  /\ seen.sizes_unrounded[t] = <<new_female, new_male>>
                 /\ near(female_population_size[t], new_female)
                 /\ near(male_population_size[t], new_male)

\* a 30-day step of a village of 730 women and 365 men: 3 births of each
\* sex, 2.4 and 1.2 deaths, rounded up to 731 and 367
C30_Witness ==
    /\ seen.population_written /\ ~aborted
    /\ step_size = Timedelta(30)
    /\ seen.sizes_at_update[1] = <<730, 365>>
    /\ seen.sizes_unrounded[1] = <<Frac(7306, 10), Frac(3668, 10)>>
    /\ female_population_size[1] = 731
    /\ male_population_size[1] = 367

\* C31: the dry/wet decision of a step is one draw shared by all tiles: on
\* a regionally dry day every tile's rainfall is exactly 0, so no state
\* after a prepare phase has the regional day dry and a tile with non-zero
\* rainfall.
C31_DryDayIsDryEverywhere ==
    (seen.weather_written /\ seen.regionally_dry)
        => \A t \in Tiles : rainfall[t] = Zero

\* a regionally dry day after its prepare phase, with a village on it
C31_Witness ==
    /\ phase = "main"
    /\ seen.weather_written /\ seen.regionally_dry
    /\ Villages # {}
    /\ \A t \in Tiles : rainfall[t] = Zero /\ seen.rainfall_generated[t] = Zero

\* C32: after setup and after every step RainfallEffectOnWheat's own
\* next_sowing_date and next_harvest_date equal Wheat's: both pairs start
\* from the same configuration and are advanced in the cleanup of the same
\* steps (they may differ only between the two cleanup handlers of a step).
C32_RainfallDatesEqualWheatDates ==
    (phase # "cleanup" \/ handled = {})
        => /\ rain_next_sowing_date = next_sowing_date
           /\ rain_next_harvest_date = next_harvest_date

\* the end of a step whose cleanup has advanced both harvest dates by a year
C32_Witness ==
    /\ phase = "step_forward"
    /\ next_harvest_date = seen.harvest0 + ONE_YEAR
    /\ rain_next_harvest_date = seen.harvest0 + ONE_YEAR
    /\ next_sowing_date = seen.sowing0
    /\ rain_next_sowing_date = seen.sowing0

\* C33: whenever the wheat consumption rate is computed, in the main phase
\* of a step, next_harvest_date - clock is strictly positive, so
\* steps_to_next_harvest is never zero or negative and the rationing
\* division never divides by zero.
C33_HarvestAheadWhenRationing ==
    phase = "main"
        => /\ next_harvest_date - clock > 0
           /\ RLess(Zero, Frac(next_harvest_date - clock, step_size))

\* the main phase of the step that ends on the harvest date: exactly one
\* step to the next harvest
C33_Witness ==
    /\ phase = "main" /\ handled = {}
    /\ Villages # {}
    /\ steps_taken > 0
    /\ Frac(next_harvest_date - clock, step_size) = One

\* C34 as claimed: whenever the mortality modifier is evaluated for a
\* village, the actual wheat consumption it divides by is strictly
\* positive: no village has wheat_stores = 0 or total population 0 at the
\* moment its mortality rate is computed.
C34_ConsumptionPositiveAtMortality ==
    seen.population_written
        => \A t \in Villages : RLess(Zero, seen.actual_at_mortality[t])

\* C35: if a village has wheat_stores > 0 and a non-negative natural
\* consumption at a step with more than one step remaining to the next
\* harvest, its wheat_stores is still > 0 after that step's consumption;
\* consumption exhausts positive stores only on a step with
\* steps_to_next_harvest <= 1.
C35_RationingKeepsStoresPositive ==
    [][(phase = "main" /\ Runs("Wheat"))
        => \A t \in Villages :
             LET steps_to_next_harvest ==
                     Frac(next_harvest_date - clock, step_size)
                 consumed == seen'.consumption[t]
                 left == RSub(wheat_stores[t], consumed)
             IN  (/\ RLess(Zero, wheat_stores[t])
                  /\ RLeq(Zero, get_natural_consumption_rate(t)))
                     => /\ RLess(One, steps_to_next_harvest)
                            => RLess(Zero, left) /\ RLess(Zero, wheat_stores'[t])
                        /\ ~RLess(Zero, left)
                            => RLeq(steps_to_next_harvest, One)]_vars

\* two steps before the harvest, after Wheat's main handler: stores of 2
\* against a natural consumption of 2, rationed to 1
C35_Witness ==
    /\ phase = "main" /\ "Wheat" \in handled
    /\ Frac(next_harvest_date - clock, step_size) = R(2)
    /\ seen.stores0[1] = R(2)
    /\ seen.natural[1] = R(2)
    /\ seen.consumption[1] = One
    /\ wheat_stores[1] = One

\* C36 as claimed: when neither the stores nor the ration bound is below
\* the natural consumption, so that the actual consumption equals the
\* natural consumption, Wheat's modifier leaves the mortality rate exactly
\* equal to the base rate.
C36_NoStarvationKeepsBaseRate ==
    seen.population_written
        => \A t \in Villages :
             seen.actual_at_mortality[t] = seen.natural_at_mortality[t]
                 => seen.mortality[t] = seen.base_mortality[t]

\* a listener of the prepare or main phase runs in this transition
PrepareOrMainHandlerRuns ==
    /\ phase \in {"prepare", "main"}
    /\ \E c \in Listeners(phase) : Runs(c)

\* C37: on a step taken while next_sowing_date < next_harvest_date (after a
\* harvest rollover, before the next sowing date is crossed) the prepare
\* and main phases leave the stored projected_wheat_harvest and the three
\* rainfall accumulators unchanged: the accumulators stay 0 and the yield
\* computed at the harvest rollover is kept for the next growing season.
C37_OutOfSeasonFrame ==
    [][(PrepareOrMainHandlerRuns /\ next_sowing_date < next_harvest_date)
        => /\ UNCHANGED <<projected_wheat_harvest, accumulators>>
           /\ \A t \in Villages :
                  /\ cumulative_dry_days'[t] = Zero
                  /\ rainfall_mid_growth'[t] = Zero
                  /\ rainfall_late_growth'[t] = Zero]_vars

\* the step after a harvest step, at the end of its main phase: a hot day
\* with 15 of rain, the accumulators at 0 and the projection as recomputed
\* at the rollover
C37_Witness ==
    /\ phase = "cleanup" /\ handled = {}
    /\ next_sowing_date < next_harvest_date
    /\ steps_taken = MaxSteps - FarmingSteps + 1
    /\ seen.harvest0 = next_harvest_date
    /\ next_harvest_date = Timestamp(2022, 5, 15) + ONE_YEAR
    /\ temperature[1] = R(100) /\ rainfall[1] = R(15)
    /\ cumulative_dry_days[1] = Zero
    /\ rainfall_mid_growth[1] = Zero
    /\ rainfall_late_growth[1] = Zero
    /\ projected_wheat_harvest[1] = seen.projected0[1]
    /\ RLess(Zero, projected_wheat_harvest[1])

\* C38: a tile that is not a village has population 0, wheat stores 0,
\* projected harvest 0 and accumulators 0 after initialisation, and no step
\* changes these values.
C38_NonVillageTilesStayEmpty ==
    \A t \in Tiles \ Villages :
        /\ female_population_size[t] = 0
        /\ male_population_size[t] = 0
        /\ wheat_stores[t] = Zero
        /\ projected_wheat_harvest[t] = Zero
        /\ cumulative_dry_days[t] = Zero
        /\ rainfall_mid_growth[t] = Zero
        /\ rainfall_late_growth[t] = Zero

\* the end of the second step of a run with a village, whose stores the
\* step has changed, beside a tile that is not a village
C38_Witness ==
    /\ phase = "step_forward"
    /\ steps_taken = 1
    /\ is_village = <<TRUE, FALSE>>
    /\ wheat_stores[1] # seen.stores0[1]
    /\ female_population_size[1] > 0
    /\ wheat_stores[2] = Zero /\ female_population_size[2] = 0

\* the cleanup of RainfallEffectOnWheat on a step that crosses its harvest date
HarvestCleanupRuns ==
    /\ phase = "cleanup"
    /\ Runs("RainfallEffectOnWheat")
    /\ StepCrosses(rain_next_harvest_date)

\* C39: cumulative_dry_days, rainfall_mid_growth and rainfall_late_growth
\* are never negative; no transition other than the cleanup of a
\* harvest-crossing step decreases any of them; and cumulative_dry_days is
\* never more than 1 above its value at the start of the step.
C39_AccumulatorsGrowUntilHarvest ==
    [][\A t \in Tiles :
          /\ RLeq(Zero, cumulative_dry_days'[t])
          /\ RLeq(Zero, rainfall_mid_growth'[t])
          /\ RLeq(Zero, rainfall_late_growth'[t])
          /\ RLeq(cumulative_dry_days'[t], RAdd(seen'.dry0[t], One))
          /\ ~HarvestCleanupRuns =>
                 /\ RLeq(cumulative_dry_days[t], cumulative_dry_days'[t])
                 /\ RLeq(rainfall_mid_growth[t], rainfall_mid_growth'[t])
                 /\ RLeq(rainfall_late_growth[t], rainfall_late_growth'[t])]_vars

\* the end of the step after a growing-season step: on the first step a dry
\* day followed a dry day on tile 2; on this one, which does not cross the
\* harvest date, 15 of rain was added to tile 1's late-growth total and
\* nothing was reset
C39_Witness ==
    /\ phase = "step_forward"
    /\ steps_taken = MaxSteps - FarmingSteps + 1
    /\ rain_next_harvest_date = seen.harvest0
    /\ rain_next_harvest_date < rain_next_sowing_date
    /\ cumulative_dry_days[2] = One
    /\ seen.dry0[2] = One
    /\ rainfall[1] = R(15)
    /\ rainfall_late_growth[1] = RAdd(seen.late0[1], R(15))
    /\ RLess(Zero, seen.late0[1])
=============================================================================
